---- MODULE Spec2Model ----
(***************************************************************************)
(* Model of picpro150: the K150 programmer protocol engine (k150.cpp) and  *)
(* the workflows of main.cpp that drive it over a serial transport.        *)
(*                                                                         *)
(* The program is single threaded.  Its control state is a call stack of   *)
(* program points (stk); every transport call (writeData, readData) is one *)
(* step.  The programmer at the other end of the line is the environment:  *)
(* each readData returns a nondeterministic batch of bytes, or throws.     *)
(***************************************************************************)
EXTENDS Integers, Sequences, FiniteSets, TLC

VARIABLES
  args,          \* main: parsed command line [op, rom, eeprom, config, icsp]
  m_props,       \* Programmer::m_props, set by configure
  stk,           \* call stack of program points, innermost first
  rv,            \* value returned by the call that returned last
  acked,         \* no operation called by the workflow has returned false
  ok,            \* local 'ok' of the running workflow function
  v,             \* loop index of programROM / programEEPROM
  attempt,       \* connect: read attempts of the protocol query
  compared,      \* program_pic, isblank_pic: regions read back so far, with the comparison's result
  m_buffer,      \* Programmer::m_buffer
  intact,        \* the data bytes in m_buffer equal the intended data
  m_version,     \* Programmer::m_version
  m_protocol,    \* Programmer::m_protocol
  m_VPPEnabled,  \* Programmer::m_VPPEnabled
  port,          \* transport state: "closed" or "open"
  opens,         \* number of COMPort::open calls
  status,        \* "running" or the exit code of main
  wlog,          \* every message written with writeData, in order
  answered,      \* a byte was received since the last writeData
  session,       \* the programmer is in its command table
  vppOnOk,       \* number of successful setProgrammingVoltages(true)
  vppOffCalls,   \* number of setProgrammingVoltages(false) calls
  silent,        \* the programmer has stopped sending
  fuses,         \* the fuse words readCONFIG gave its caller
  m_segments,    \* HexData::m_segments: start address -> bytes
  file,          \* the text of the hex file on disk
  ret,           \* the HexData call made last, with what it returned
  call,          \* who calls the Programmer: main, or a caller with arguments of its own
  chip           \* CHIPInfo::loaddata: program point, file left to read, chipfound, m_info

cfg   == <<args, m_props, m_segments, file, ret, call, chip>>
ctl   == <<stk, rv, acked>>
wfl   == <<ok, v, attempt, compared, fuses>>
chan  == <<m_buffer, intact, wlog, answered>>
prog  == <<m_version, m_protocol, m_VPPEnabled>>
env   == <<port, opens, status, silent>>
ghost == <<session, vppOnOk, vppOffCalls>>
vars  == <<args, m_props, stk, rv, acked, ok, v, attempt, compared, m_buffer, intact,
           m_version, m_protocol, m_VPPEnabled, port, opens, status, wlog, answered,
           session, vppOnOk, vppOffCalls, silent, fuses, m_segments, file, ret, call,
           chip>>

\* Largest number of bytes one readData call returns.
MaxRead == 2

\* Reply bytes of the protocol (ASCII).
ChA == 65
ChB == 66
ChC == 67
ChI == 73
ChP == 80
ChQ == 81
ChV == 86
ChY == 89
Chv == 118
\* A byte no operation expects.
Garbage == {120}

\* Serial read attempts of the protocol query.
MaxAttempt == 10

\* "P18A"
P18A == <<80, 49, 56, 65>>

Range(s) == {s[i] : i \in 1..Len(s)}
IsPrefix(s, t) == Len(s) <= Len(t) /\ \A i \in 1..Len(s) : s[i] = t[i]
Chunks(A) == UNION {[1..n -> A] : n \in 0..MaxRead}

(***************************************************************************)
(* Static tables of k150.cpp.                                              *)
(***************************************************************************)
CORE_TYPE_LIST ==
  [ BIT16_C |-> [value |-> 0,  bits |-> 16, rom_base |-> 0, eeprom_base |-> 15728640, config_base |-> 3145728],
    BIT16_A |-> [value |-> 1,  bits |-> 16, rom_base |-> 0, eeprom_base |-> 15728640, config_base |-> 3145728],
    BIT16_B |-> [value |-> 2,  bits |-> 16, rom_base |-> 0, eeprom_base |-> 15728640, config_base |-> 3145728],
    BIT14_G |-> [value |-> 3,  bits |-> 14, rom_base |-> 0, eeprom_base |-> 16896, config_base |-> 16398],
    BIT12_A |-> [value |-> 4,  bits |-> 12, rom_base |-> 0, eeprom_base |-> 16896, config_base |-> 16398],
    BIT14_A |-> [value |-> 5,  bits |-> 14, rom_base |-> 0, eeprom_base |-> 16896, config_base |-> 16398],
    BIT14_B |-> [value |-> 6,  bits |-> 14, rom_base |-> 0, eeprom_base |-> 16896, config_base |-> 16398],
    BIT14_C |-> [value |-> 7,  bits |-> 14, rom_base |-> 0, eeprom_base |-> 16896, config_base |-> 16398],
    BIT12_B |-> [value |-> 8,  bits |-> 14, rom_base |-> 0, eeprom_base |-> 16896, config_base |-> 16398],
    BIT14_E |-> [value |-> 9,  bits |-> 14, rom_base |-> 0, eeprom_base |-> 16896, config_base |-> 16398],
    BIT14_F |-> [value |-> 10, bits |-> 14, rom_base |-> 0, eeprom_base |-> 16896, config_base |-> 16398],
    BIT12_C |-> [value |-> 11, bits |-> 12, rom_base |-> 0, eeprom_base |-> 16896, config_base |-> 8190] ]

POWER_SEQUENCE_LIST ==
  [ VCC |-> [value |-> 0, delay |-> FALSE], VCCVPP1 |-> [value |-> 1, delay |-> FALSE],
    VCCVPP2 |-> [value |-> 2, delay |-> FALSE], VPP1VCC |-> [value |-> 3, delay |-> FALSE],
    VPP2VCC |-> [value |-> 4, delay |-> FALSE], VCCFASTVPP1 |-> [value |-> 1, delay |-> TRUE],
    VCCFASTVPP2 |-> [value |-> 2, delay |-> TRUE] ]

SOCKET_HINT_LIST ==
  [ PIN0 |-> "", PIN8 |-> "socket pin 13", PIN14 |-> "socket pin 13",
    PIN18 |-> "socket pin 2", PIN28N |-> "socket pin 1", PIN40 |-> "socket pin 1" ]

(***************************************************************************)
(* The chip records the runs are checked with (CHIPInfo::CHIP).  Memory    *)
(* sizes are scaled down; the last record has sizes and a fuse count that  *)
(* the program* operations reject.                                         *)
(***************************************************************************)
Chips ==
  { [chip_name |-> "16F84A", core_type |-> "BIT14_B", socket_image |-> "PIN18",
     rom_size |-> 16, eeprom_size |-> 2, fuse_blank |-> <<16383>>,
     flash_chip |-> TRUE, cal_word |-> FALSE, icsp_only |-> FALSE,
     power_sequence |-> "VCCVPP1", band_gap |-> FALSE, program_delay |-> 10,
     erase_mode |-> 2, program_tries |-> 1, panel_sizing |-> 0],
    [chip_name |-> "18F2550", core_type |-> "BIT16_A", socket_image |-> "PIN28N",
     rom_size |-> 16, eeprom_size |-> 2,
     fuse_blank |-> <<65535, 65535, 65535, 65535, 65535, 65535, 65535>>,
     flash_chip |-> TRUE, cal_word |-> FALSE, icsp_only |-> FALSE,
     power_sequence |-> "VPP2VCC", band_gap |-> FALSE, program_delay |-> 10,
     erase_mode |-> 3, program_tries |-> 1, panel_sizing |-> 16],
    [chip_name |-> "12C508", core_type |-> "BIT12_A", socket_image |-> "PIN8",
     rom_size |-> 16, eeprom_size |-> 0, fuse_blank |-> <<4095>>,
     flash_chip |-> FALSE, cal_word |-> TRUE, icsp_only |-> FALSE,
     power_sequence |-> "VCCFASTVPP2", band_gap |-> TRUE, program_delay |-> 20,
     erase_mode |-> 0, program_tries |-> 8, panel_sizing |-> 0],
    [chip_name |-> "ODD", core_type |-> "BIT14_G", socket_image |-> "PIN18",
     rom_size |-> 24, eeprom_size |-> 3, fuse_blank |-> <<16383, 16383, 16383>>,
     flash_chip |-> TRUE, cal_word |-> FALSE, icsp_only |-> TRUE,
     power_sequence |-> "VCC", band_gap |-> FALSE, program_delay |-> 10,
     erase_mode |-> 1, program_tries |-> 1, panel_sizing |-> 0] }

\* x << n of a 32-bit int, of which the later & 0xFFFF keeps the low 16 bits.
RECURSIVE ShiftLeft(_, _)
ShiftLeft(x, n) ==
  IF n = 0 THEN x ELSE ShiftLeft((2 * x) % 65536, n - 1)

AllOnes(core_bits) ==
  65535

\* ~(0xFFFF << core_bits) & 0xFFFF
RomBlank(core_bits) ==
  65535 - ShiftLeft(65535, core_bits)

\* Programmer::configure: the properties derived from a chip record.
configure(info) ==
  [ socket_hint |-> IF info.icsp_only THEN "" ELSE SOCKET_HINT_LIST[info.socket_image],
    core_type   |-> CORE_TYPE_LIST[info.core_type].value,
    core_bits   |-> CORE_TYPE_LIST[info.core_type].bits,
    rom_base    |-> CORE_TYPE_LIST[info.core_type].rom_base,
    rom_size    |-> info.rom_size,
    eeprom_size |-> info.eeprom_size,
    rom_blank   |-> RomBlank(CORE_TYPE_LIST[info.core_type].bits),
    program_delay  |-> info.program_delay,
    program_tries  |-> info.program_tries,
    erase_mode     |-> info.erase_mode,
    panel_sizing   |-> info.panel_sizing,
    power_sequence |-> POWER_SEQUENCE_LIST[info.power_sequence].value,
    fuse_blank  |-> info.fuse_blank,
    flag_flash_chip |-> info.flash_chip,
    flag_calibration_value_in_rom |-> info.cal_word,
    flag_band_gap_fuse |-> info.band_gap,
    flag_18f_single_panel_access_mode |-> (CORE_TYPE_LIST[info.core_type].value = 1),
    flag_vcc_vpp_delay |-> POWER_SEQUENCE_LIST[info.power_sequence].delay ]

\* Programmer::Properties as constructed, before any configure (PING).
Properties ==
  [ socket_hint |-> "", core_type |-> 0, core_bits |-> 0, rom_base |-> 0, rom_size |-> 0,
    eeprom_size |-> 0, rom_blank |-> 0, program_delay |-> 0, program_tries |-> 0,
    erase_mode |-> 0, panel_sizing |-> 0, power_sequence |-> 0, fuse_blank |-> <<>>,
    flag_flash_chip |-> FALSE, flag_calibration_value_in_rom |-> FALSE,
    flag_band_gap_fuse |-> FALSE, flag_18f_single_panel_access_mode |-> FALSE,
    flag_vcc_vpp_delay |-> FALSE ]

\* CHIPInfo::CHIP as constructed; of its members the model keeps chip_name,
\* chip_id, core_type and flash_chip.
CHIP == [valid |-> FALSE, chip_name |-> <<>>, chip_id |-> <<>>, core_type |-> <<>>,
         flash_chip |-> FALSE]

\* The chip record has been read before the run of main starts.
Loaded == [pc |-> "done", datfile |-> <<>>, file |-> <<>>, chipname |-> <<>>,
           opened |-> TRUE, chipfound |-> TRUE,
           m_info |-> [CHIP EXCEPT !.valid = TRUE], rv |-> TRUE]

\* main: the command lines that reach the programmer.
Arguments ==
  { a \in [op : {"PING", "DRYRUN", "DUMP", "ERASE", "PROGRAM", "VERIFY", "ISBLANK"},
           rom : BOOLEAN, eeprom : BOOLEAN, config : BOOLEAN, icsp : BOOLEAN] :
      /\ a.op \in {"PING", "ERASE"} => ~a.rom /\ ~a.eeprom /\ ~a.config
      /\ a.op \in {"PING"} => ~a.icsp
      /\ a.op \in {"DRYRUN", "DUMP", "PROGRAM"} =>
           \/ a.rom /\ a.eeprom /\ a.config
           \/ Cardinality({x \in {"r", "e", "c"} :
                \/ x = "r" /\ a.rom
                \/ x = "e" /\ a.eeprom
                \/ x = "c" /\ a.config}) = 1
      /\ a.op = "VERIFY" =>
           \/ a.rom /\ a.eeprom /\ a.config
           \/ a.rom /\ ~a.eeprom /\ ~a.config
           \/ ~a.rom /\ a.eeprom /\ ~a.config
      /\ a.op = "ISBLANK" =>
           /\ ~a.config
           /\ a.rom # a.eeprom }

(***************************************************************************)
(* Control.                                                                *)
(***************************************************************************)
At(l)         == stk # <<>> /\ Head(stk) = l

\* The program points of the workflow functions where a Programmer
\* operation returns.
WorkflowPoints ==
  { w \o ":" \o o :
      w \in {"read_pic", "erase_pic", "program_pic", "verify_pic", "isblank_pic"},
      o \in { "init", "waitIn", "vppOn", "vppOff", "eraseChip", "cycle",
              "programROM", "programEEPROM", "programCONFIG", "commit",
              "readROM", "readEEPROM", "readCONFIG" } }

\* The function about to return was called by a workflow function.
CalledByWorkflow == Len(stk) >= 2 /\ stk[2] \in WorkflowPoints

Goto(l)       == stk' = <<l>> \o Tail(stk) /\ rv' = rv /\ acked' = acked
Call(f, back) == stk' = <<f, back>> \o Tail(stk) /\ rv' = rv /\ acked' = acked
Return(b)     ==
  /\ stk' = Tail(stk)
  /\ rv' = b
  /\ acked' = (acked /\ (b \/ ~CalledByWorkflow))

\* COMPort::writeData followed by the m_buffer.clear() that opens the poll loop.
Write(c, bytes) ==
  /\ wlog' = Append(wlog, [cmd |-> c, bytes |-> bytes])
  /\ m_buffer' = <<>>
  /\ intact' = TRUE
  /\ answered' = FALSE


(***************************************************************************)
(* The poll loops: "while (m_buffer.size() < n) m_port->readData(m_buffer)" *)
(***************************************************************************)
BulkPolls == {"readROM:poll", "readEEPROM:poll", "readCONFIG:data"}

\* The byte count each poll loop waits for.
Need(l) ==
  CASE l = "connect:greet"    -> 2
    [] l = "connect:proto"    -> 4
    [] l = "waitIn:poll"      -> 2
    [] l = "waitOut:poll"     -> 2
    [] l = "readROM:poll"     -> 2 * m_props.rom_size
    [] l = "readEEPROM:poll"  -> m_props.eeprom_size
    [] l = "readCONFIG:data"  -> 26
    [] OTHER                  -> 1

\* The byte each single-byte acknowledgement loop hopes for.
Awaited(l) ==
  CASE l \in {"commandStart:Q", "commandEnd:poll"} -> ChQ
    [] l = "commandStart:P"    -> ChP
    [] l = "init:poll"         -> ChI
    [] l \in {"vppOn:poll", "cycle:poll"} -> ChV
    [] l = "vppOff:poll"       -> Chv
    [] l = "readCONFIG:ack"    -> ChC
    [] l \in {"programROM:end", "programEEPROM:end"} -> ChP
    [] OTHER                   -> ChY

AckPolls ==
  { "commandStart:Q", "commandStart:P", "commandEnd:poll", "init:poll",
    "vppOn:poll", "vppOff:poll", "cycle:poll", "eraseChip:poll",
    "programROM:head", "programROM:chunk", "programROM:end",
    "programEEPROM:head", "programEEPROM:pair", "programEEPROM:end",
    "programCONFIG:poll", "commit:poll", "readCONFIG:ack", "isBlankROM:poll" }

\* What the programmer may say where the reply has a fixed shape.
Scripts(l) ==
  CASE l = "connect:greet" -> { <<ChB, 3>>, <<CHOOSE g \in Garbage : TRUE, 3>> }
    [] l = "connect:proto" -> { P18A, <<80, 49, 54, 66>> }
    [] l \in {"waitIn:poll", "waitOut:poll"}
                           -> { <<ChA, ChY>>, <<ChA, 78>>, <<CHOOSE g \in Garbage : TRUE, ChY>> }

ScriptPolls == {"connect:greet", "connect:proto", "waitIn:poll", "waitOut:poll"}
PollLabels  == AckPolls \cup ScriptPolls \cup BulkPolls

\* The batches of bytes one readData call may append at poll loop l.
Replies(l, buf) ==
  IF l \in ScriptPolls
    THEN { c \in Chunks(UNION {Range(s) : s \in Scripts(l)}) :
             \E s \in Scripts(l) : IsPrefix(buf \o c, s) }
  ELSE IF l \in BulkPolls
    THEN Chunks({0})
  ELSE IF l = "isBlankROM:poll"
    THEN Chunks({ChB, ChY, ChC} \cup Garbage)
  ELSE Chunks({Awaited(l)} \cup Garbage)

\* The poll loop at the top of the stack has not yet read enough.
Polling ==
  /\ stk # <<>>
  /\ Head(stk) \in PollLabels
  /\ Len(m_buffer) < Need(Head(stk))
  /\ Head(stk) = "connect:proto" => attempt < MaxAttempt

\* The poll loop at l is over.
Polled(l) ==
  /\ At(l)
  /\ \/ Len(m_buffer) >= Need(l)
     \/ l = "connect:proto" /\ attempt >= MaxAttempt

(***************************************************************************)
(* COMPort::readData inside a poll loop: appends what the line delivers    *)
(* (possibly nothing, after the transport's timeout), or throws, which     *)
(* every operation catches by returning false.  A read that delivers      *)
(* nothing leaves the program where it was: a poll loop that only ever     *)
(* gets such reads is a state that repeats for ever.                       *)
(***************************************************************************)
readData ==
  /\ Polling
  /\ \/ /\ \E c \in Replies(Head(stk), m_buffer), same \in BOOLEAN :
             /\ silent => c = <<>>
             /\ (c = <<>> \/ Head(stk) \notin BulkPolls) => same
             /\ m_buffer' = m_buffer \o c
             /\ intact' = (intact /\ same)
             /\ answered' = (answered \/ c # <<>>)
        /\ attempt' = IF Head(stk) = "connect:proto" THEN attempt + 1 ELSE attempt
        /\ UNCHANGED <<ctl, ok, v, compared, fuses, wlog>>
     \/ /\ ~silent
        /\ Return(FALSE)
        /\ UNCHANGED <<wfl, chan>>
  /\ UNCHANGED <<cfg, prog, env, ghost>>


(***************************************************************************)
(* Programmer: handshake and command session (k150.cpp).                   *)
(***************************************************************************)
\* connect: the greeting is accepted.
GreetingOK(buf) == buf[1] = ChB

\* A connect that takes any four-letter protocol name.
ProtocolAny(name) == Len(name) = 4

\* connect: the protocol name is accepted.
ProtocolOK(name) == name = P18A

getVersionName(version) ==
  CASE version = 0 -> "K128"
    [] version = 1 -> "K149-A"
    [] version = 2 -> "K149-B"
    [] version = 3 -> "K150"
    [] OTHER       -> ""

connect ==
  \/ /\ At("connect")
     /\ opens' = opens + 1
     /\ \/ /\ port' = "open"
           /\ m_buffer' = <<>>
           /\ Goto("connect:greet")
        \/ /\ port' = port
           /\ m_buffer' = m_buffer
           /\ Return(FALSE)
     /\ UNCHANGED <<cfg, wfl, intact, wlog, answered, prog, status, silent, ghost>>
  \/ /\ Polled("connect:greet")
     /\ IF GreetingOK(m_buffer)
          THEN m_version' = m_buffer[2] /\ Call("commandStart", "connect:started")
          ELSE m_version' = m_version /\ Return(FALSE)
     /\ UNCHANGED <<cfg, wfl, chan, m_protocol, m_VPPEnabled, env, ghost>>
  \/ /\ At("connect:started")
     /\ IF rv
          THEN Write(21, <<21>>) /\ attempt' = 0 /\ Goto("connect:proto")
          ELSE Return(FALSE) /\ UNCHANGED <<chan, attempt>>
     /\ UNCHANGED <<cfg, ok, v, compared, fuses, prog, env, ghost>>
  \/ /\ Polled("connect:proto")
     /\ m_protocol' = m_buffer
     /\ IF ProtocolOK(m_buffer)
          THEN Call("commandEnd", "connect:end")
          ELSE Return(FALSE)
     /\ UNCHANGED <<cfg, wfl, chan, m_version, m_VPPEnabled, env, ghost>>
  \/ /\ At("connect:end")
     /\ Return(TRUE)
     /\ UNCHANGED <<cfg, wfl, chan, prog, env, ghost>>

\* commandStart: the poll for 'Q' is over.
GotQ(buf) == buf[1] = ChQ

commandStart ==
  \/ /\ At("commandStart")
     /\ Write(1, <<1>>)
     /\ session' = FALSE
     /\ Goto("commandStart:Q")
     /\ UNCHANGED <<cfg, wfl, prog, env, vppOnOk, vppOffCalls>>
  \/ /\ Polled("commandStart:Q")
     /\ IF GotQ(m_buffer)
          THEN Write(ChP, <<ChP>>) /\ Goto("commandStart:P")
          ELSE m_buffer' = <<>> /\ UNCHANGED <<ctl, intact, wlog, answered>>
     /\ UNCHANGED <<cfg, wfl, prog, env, ghost>>
  \/ /\ Polled("commandStart:P")
     /\ IF m_buffer[1] # ChP
          THEN Return(FALSE) /\ UNCHANGED <<m_buffer, session>>
          ELSE m_buffer' = <<>> /\ session' = TRUE /\ Return(TRUE)
     /\ UNCHANGED <<cfg, wfl, intact, wlog, answered, prog, env, vppOnOk, vppOffCalls>>

commandEnd ==
  \/ /\ At("commandEnd")
     /\ Write(1, <<1>>)
     /\ session' = FALSE
     /\ Goto("commandEnd:poll")
     /\ UNCHANGED <<cfg, wfl, prog, env, vppOnOk, vppOffCalls>>
  \/ /\ Polled("commandEnd:poll")
     /\ Return(m_buffer[1] = ChQ)
     /\ UNCHANGED <<cfg, wfl, chan, prog, env, ghost>>

\* waitUntilChipInSocket; the workflows call it for a chip with a socket
\* hint only.
waitUntilChipInSocket ==
  \/ /\ At("waitIn")
     /\ IF m_props.socket_hint = ""
          THEN Return(TRUE)
          ELSE Call("commandStart", "waitIn:started")
     /\ UNCHANGED <<cfg, wfl, chan, prog, env, ghost>>
  \/ /\ At("waitIn:started")
     /\ IF rv
          THEN Write(18, <<18>>) /\ Goto("waitIn:poll")
          ELSE Return(FALSE) /\ UNCHANGED chan
     /\ UNCHANGED <<cfg, wfl, prog, env, ghost>>
  \/ /\ Polled("waitIn:poll")
     /\ IF m_buffer[1] # ChA
          THEN Return(FALSE)
          ELSE Call("commandEnd", IF m_buffer[2] = ChY THEN "waitIn:endY" ELSE "waitIn:endN")
     /\ UNCHANGED <<cfg, wfl, chan, prog, env, ghost>>
  \/ /\ At("waitIn:endY")
     /\ Return(TRUE)
     /\ UNCHANGED <<cfg, wfl, chan, prog, env, ghost>>
  \/ /\ At("waitIn:endN")
     /\ Return(FALSE)
     /\ UNCHANGED <<cfg, wfl, chan, prog, env, ghost>>

\* waitUntilChipOutOfSocket, which no workflow calls.
waitUntilChipOutOfSocket ==
  \/ /\ At("waitOut")
     /\ IF m_props.socket_hint = ""
          THEN Return(TRUE)
          ELSE Call("commandStart", "waitOut:started")
     /\ UNCHANGED <<cfg, wfl, chan, prog, env, ghost>>
  \/ /\ At("waitOut:started")
     /\ IF rv
          THEN Write(19, <<19>>) /\ Goto("waitOut:poll")
          ELSE Return(FALSE) /\ UNCHANGED chan
     /\ UNCHANGED <<cfg, wfl, prog, env, ghost>>
  \/ /\ Polled("waitOut:poll")
     /\ IF m_buffer[1] # ChA
          THEN Return(FALSE)
          ELSE Call("commandEnd", IF m_buffer[2] = ChY THEN "waitOut:endY" ELSE "waitOut:endN")
     /\ UNCHANGED <<cfg, wfl, chan, prog, env, ghost>>
  \/ /\ At("waitOut:endY")
     /\ Return(TRUE)
     /\ UNCHANGED <<cfg, wfl, chan, prog, env, ghost>>
  \/ /\ At("waitOut:endN")
     /\ Return(FALSE)
     /\ UNCHANGED <<cfg, wfl, chan, prog, env, ghost>>

(***************************************************************************)
(* The data the workflows shape from the hex file (main.cpp).  The content *)
(* of the file is not modelled: each image is a fixed pattern of the       *)
(* length the workflow computes.                                           *)
(***************************************************************************)
Hi(x) == (x \div 256) % 256
Lo(x) == x % 256

rom_data == [i \in 1..(2 * m_props.rom_size) |-> i % 256]

eeprom_data ==
  IF m_props.core_bits = 16
    THEN [i \in 1..(2 * (m_props.eeprom_size \div 2)) |-> (i + 100) % 256]
    ELSE [i \in 1..m_props.eeprom_size |-> (i + 100) % 256]

\* --id was not given
id_data == <<>>

\* fuse_blank with its first word taken from the (blank filled) hex data
fuse_values == [m_props.fuse_blank EXCEPT ![1] = m_props.rom_blank]

NotResized(s, n) == s

\* std::vector::resize(n, 0) of the id bytes
Resized(s, n) == [i \in 1..n |-> IF i <= Len(s) THEN s[i] ELSE 0]

RECURSIVE FuseBytes(_)
FuseBytes(fs) ==
  IF fs = <<>> THEN <<>> ELSE <<Lo(Head(fs)), Hi(Head(fs))>> \o FuseBytes(Tail(fs))

(***************************************************************************)
(* Programmer: voltages, erase, program and read operations (k150.cpp).    *)
(* The arguments of an operation are those the workflows of main.cpp pass, *)
(* or those of the call under test when the operation is called directly.  *)
(***************************************************************************)
SocketMode     == FALSE
ROMArgument    == IF call.op = "programROM" THEN call.data ELSE rom_data
EEPROMArgument == IF call.op = "programEEPROM" THEN call.data ELSE eeprom_data
IdArgument     == IF call.op = "programCONFIG" THEN call.id ELSE id_data
FusesArgument  == IF call.op = "programCONFIG" THEN call.fuses ELSE fuse_values
IcspArgument   == IF call.op = "init" THEN call.icsp_mode ELSE args.icsp

\* What lies in memory after the end of a vector.
PastTheEnd == {0, 165}

\* programROM: "for (i = 0; i < 32; ++i) msg.push_back(data[v + i])".  A read
\* past the end of data is undefined: it gives whatever lies there, or the
\* process dies (no chunk).
ChunkRead(data, from) ==
  IF from + 32 <= Len(data)
    THEN { SubSeq(data, from + 1, from + 32) }
    ELSE { SubSeq(data, from + 1, Len(data)) \o [i \in 1..(from + 32 - Len(data)) |-> g] :
             g \in PastTheEnd } \cup { <<>> }

InitMessage(icsp_mode) ==
  << 3, Hi(m_props.rom_size), Lo(m_props.rom_size),
     Hi(m_props.eeprom_size), Lo(m_props.eeprom_size),
     Lo(m_props.core_type),
     (IF m_props.flag_calibration_value_in_rom THEN 1 ELSE 0)
       + (IF m_props.flag_band_gap_fuse THEN 2 ELSE 0)
       + (IF m_props.flag_18f_single_panel_access_mode THEN 4 ELSE 0)
       + (IF m_props.flag_vcc_vpp_delay THEN 8 ELSE 0),
     Lo(m_props.program_delay),
     IF ~icsp_mode THEN Lo(m_props.power_sequence)
     ELSE IF m_props.power_sequence = 2 THEN 1
     ELSE IF m_props.power_sequence = 4 THEN 3
     ELSE Lo(m_props.power_sequence),
     Lo(m_props.erase_mode), Lo(m_props.program_tries), Lo(m_props.panel_sizing) >>

initializeProgrammingVariables ==
  \/ /\ At("init")
     /\ Write(3, InitMessage(IcspArgument))
     /\ Goto("init:poll")
     /\ UNCHANGED <<cfg, wfl, prog, env, ghost>>
  \/ /\ Polled("init:poll")
     /\ Return(m_buffer[1] = ChI)
     /\ UNCHANGED <<cfg, wfl, chan, prog, env, ghost>>

AnyReply(onoff, buf) == TRUE

\* setProgrammingVoltages: the reply is the one expected, 'V' for on and
\* 'v' for off.
VoltageReplyOK(onoff, buf) == IF onoff THEN buf[1] = ChV ELSE buf[1] = Chv

setProgrammingVoltages ==
  \/ /\ At("vppOn")
     /\ Write(4, <<4>>)
     /\ Goto("vppOn:poll")
     /\ UNCHANGED <<cfg, wfl, prog, env, ghost>>
  \/ /\ At("vppOff")
     /\ Write(5, <<5>>)
     /\ vppOffCalls' = vppOffCalls + 1
     /\ Goto("vppOff:poll")
     /\ UNCHANGED <<cfg, wfl, prog, env, session, vppOnOk>>
  \/ /\ Polled("vppOn:poll")
     /\ IF ~VoltageReplyOK(TRUE, m_buffer)
          THEN Return(FALSE) /\ UNCHANGED <<m_VPPEnabled, vppOnOk>>
          ELSE m_VPPEnabled' = TRUE /\ vppOnOk' = vppOnOk + 1 /\ Return(TRUE)
     /\ UNCHANGED <<cfg, wfl, chan, m_version, m_protocol, env, session, vppOffCalls>>
  \/ /\ Polled("vppOff:poll")
     /\ IF ~VoltageReplyOK(FALSE, m_buffer)
          THEN Return(FALSE) /\ UNCHANGED m_VPPEnabled
          ELSE m_VPPEnabled' = FALSE /\ Return(TRUE)
     /\ UNCHANGED <<cfg, wfl, chan, m_version, m_protocol, env, ghost>>

cycleProgrammingVoltages ==
  \/ /\ At("cycle")
     /\ Write(6, <<6>>)
     /\ Goto("cycle:poll")
     /\ UNCHANGED <<cfg, wfl, prog, env, ghost>>
  \/ /\ Polled("cycle:poll")
     /\ IF m_buffer[1] # ChV
          THEN Call("commandEnd", "cycle:reset") /\ UNCHANGED m_VPPEnabled
          ELSE m_VPPEnabled' = TRUE /\ Return(TRUE)
     /\ UNCHANGED <<cfg, wfl, chan, m_version, m_protocol, env, ghost>>
  \/ /\ At("cycle:reset")
     /\ m_VPPEnabled' = FALSE
     /\ Return(FALSE)
     /\ UNCHANGED <<cfg, wfl, chan, m_version, m_protocol, env, ghost>>

eraseChip ==
  \/ /\ At("eraseChip")
     /\ Write(14, <<14>>)
     /\ Goto("eraseChip:poll")
     /\ UNCHANGED <<cfg, wfl, prog, env, ghost>>
  \/ /\ Polled("eraseChip:poll")
     /\ Return(m_buffer[1] = ChY)
     /\ UNCHANGED <<cfg, wfl, chan, prog, env, ghost>>

\* programROM: the size check on its data.
ROMSizeOK(data) ==
  LET wsz == Len(data) \div 2
  IN  ~(wsz > m_props.rom_size \/ (wsz * 2) % 32 # 0)

programROM ==
  \/ /\ At("programROM")
     /\ IF ROMSizeOK(ROMArgument)
          THEN /\ Write(7, <<7, Hi(Len(ROMArgument) \div 2), Lo(Len(ROMArgument) \div 2)>>)
               /\ Goto("programROM:head")
          ELSE Return(FALSE) /\ UNCHANGED chan
     /\ UNCHANGED <<cfg, wfl, prog, env, ghost>>
  \/ /\ Polled("programROM:head")
     /\ IF m_buffer[1] # ChY
          THEN Return(FALSE) /\ v' = v
          ELSE v' = 0 /\ Goto("programROM:loop")
     /\ UNCHANGED <<cfg, ok, attempt, compared, fuses, chan, prog, env, ghost>>
  \/ /\ At("programROM:loop")
     /\ IF v < Len(ROMArgument)
          THEN \E msg \in ChunkRead(ROMArgument, v) :
                 IF msg = <<>>
                   THEN stk' = <<>> /\ UNCHANGED <<rv, acked, chan>>
                   ELSE Write(0, msg) /\ Goto("programROM:chunk")
          ELSE /\ m_buffer' = <<>>
               /\ UNCHANGED <<intact, wlog, answered>>
               /\ Goto("programROM:end")
     /\ UNCHANGED <<cfg, wfl, prog, env, ghost>>
  \/ /\ Polled("programROM:chunk")
     /\ IF m_buffer[1] # ChY
          THEN Return(FALSE) /\ v' = v
          ELSE v' = v + 32 /\ Goto("programROM:loop")
     /\ UNCHANGED <<cfg, ok, attempt, compared, fuses, chan, prog, env, ghost>>
  \/ /\ Polled("programROM:end")
     /\ Return(m_buffer[1] = ChP)
     /\ UNCHANGED <<cfg, wfl, chan, prog, env, ghost>>

EvenLength(data) == Len(data) % 2 = 0

\* programEEPROM: the size check on its data.
EEPROMSizeOK(data) ==
  ~(Len(data) > m_props.eeprom_size \/ Len(data) % 2 # 0)

programEEPROM ==
  \/ /\ At("programEEPROM")
     /\ IF EEPROMSizeOK(EEPROMArgument)
          THEN /\ Write(8, <<8, Hi(Len(EEPROMArgument)), Lo(Len(EEPROMArgument))>>)
               /\ Goto("programEEPROM:head")
          ELSE Return(FALSE) /\ UNCHANGED chan
     /\ UNCHANGED <<cfg, wfl, prog, env, ghost>>
  \/ /\ Polled("programEEPROM:head")
     /\ IF m_buffer[1] # ChY
          THEN Return(FALSE) /\ v' = v
          ELSE v' = 0 /\ Goto("programEEPROM:loop")
     /\ UNCHANGED <<cfg, ok, attempt, compared, fuses, chan, prog, env, ghost>>
  \/ /\ At("programEEPROM:loop")
     /\ IF v < Len(EEPROMArgument)
          THEN /\ Write(0, <<EEPROMArgument[v + 1], EEPROMArgument[v + 2]>>)
               /\ Goto("programEEPROM:pair")
          ELSE Write(0, <<0, 0>>) /\ Goto("programEEPROM:end")
     /\ UNCHANGED <<cfg, wfl, prog, env, ghost>>
  \/ /\ Polled("programEEPROM:pair")
     /\ IF m_buffer[1] # ChY
          THEN Return(FALSE) /\ v' = v
          ELSE v' = v + 2 /\ Goto("programEEPROM:loop")
     /\ UNCHANGED <<cfg, ok, attempt, compared, fuses, chan, prog, env, ghost>>
  \/ /\ Polled("programEEPROM:end")
     /\ Return(m_buffer[1] = ChP)
     /\ UNCHANGED <<cfg, wfl, chan, prog, env, ghost>>

\* programCONFIG: the fuse count fits the core.
FuseCountOK(fs) ==
  IF m_props.core_bits = 16 THEN Len(fs) = 7 ELSE ~(fs = <<>> \/ Len(fs) > 2)

ConfigMessage(id, fs) ==
  IF m_props.core_bits = 16
    THEN <<9, 48, 48>> \o Resized(id, 8) \o FuseBytes(fs)
    ELSE <<9, 48, 48>> \o Resized(id, 4) \o <<70, 70, 70, 70>>
           \o <<Lo(fs[1]), Hi(fs[1])>> \o [i \in 1..12 |-> 255]

programCONFIG ==
  \/ /\ At("programCONFIG")
     /\ IF FuseCountOK(FusesArgument)
          THEN Write(9, ConfigMessage(IdArgument, FusesArgument)) /\ Goto("programCONFIG:poll")
          ELSE Return(FALSE) /\ UNCHANGED chan
     /\ UNCHANGED <<cfg, wfl, prog, env, ghost>>
  \/ /\ Polled("programCONFIG:poll")
     /\ Return(m_buffer[1] = ChY)
     /\ UNCHANGED <<cfg, wfl, chan, prog, env, ghost>>

\* programCOMMIT_18FXXXX_FUSE, called for a 16 bit core.
programCOMMIT_18FXXXX_FUSE ==
  \/ /\ At("commit")
     /\ m_props.core_bits = 16
     /\ Write(17, <<17>>)
     /\ Goto("commit:poll")
     /\ UNCHANGED <<cfg, wfl, prog, env, ghost>>
  \/ /\ Polled("commit:poll")
     /\ Return(m_buffer[1] = ChY)
     /\ UNCHANGED <<cfg, wfl, chan, prog, env, ghost>>

\* isBlankROM, which no workflow calls: a reply that starts with 'B' is
\* dropped whole by the m_buffer.clear() of the next round.
isBlankROM ==
  \/ /\ At("isBlankROM")
     /\ Write(15, <<15, Hi(m_props.rom_blank)>>)
     /\ Goto("isBlankROM:poll")
     /\ UNCHANGED <<cfg, wfl, prog, env, ghost>>
  \/ /\ Polled("isBlankROM:poll")
     /\ IF m_buffer[1] = ChB
          THEN m_buffer' = <<>> /\ UNCHANGED <<ctl, intact, wlog, answered>>
          ELSE Return(m_buffer[1] = ChY) /\ UNCHANGED chan
     /\ UNCHANGED <<cfg, wfl, prog, env, ghost>>

readROM ==
  \/ /\ At("readROM")
     /\ Write(11, <<11>>)
     /\ Goto("readROM:poll")
     /\ UNCHANGED <<cfg, wfl, prog, env, ghost>>
  \/ /\ Polled("readROM:poll")
     /\ Return(Len(m_buffer) = 2 * m_props.rom_size)
     /\ UNCHANGED <<cfg, wfl, chan, prog, env, ghost>>

readEEPROM ==
  \/ /\ At("readEEPROM")
     /\ Write(12, <<12>>)
     /\ Goto("readEEPROM:poll")
     /\ UNCHANGED <<cfg, wfl, prog, env, ghost>>
  \/ /\ Polled("readEEPROM:poll")
     /\ Return(Len(m_buffer) = m_props.eeprom_size)
     /\ UNCHANGED <<cfg, wfl, chan, prog, env, ghost>>

\* The fuse words a 26 byte CONFIG reply carries at bytes 10.. (low byte first):
\* the intended ones, or something else.
ReplyFuses(same) ==
  IF same THEN fuse_values ELSE [fuse_values EXCEPT ![1] = (@ + 1) % 65536]

\* readCONFIG: the fuse words its loop "for (i = 0; i < fuse_blank.size(); i += 2)"
\* takes from the reply.
FusesRead(reply) ==
  [k \in 1..((Len(m_props.fuse_blank) + 1) \div 2) |-> reply[k]]

readCONFIG ==
  \/ /\ At("readCONFIG")
     /\ Write(13, <<13>>)
     /\ Goto("readCONFIG:ack")
     /\ UNCHANGED <<cfg, wfl, prog, env, ghost>>
  \/ /\ Polled("readCONFIG:ack")
     /\ IF m_buffer[1] # ChC
          THEN Call("vppOff", "readCONFIG:failed") /\ UNCHANGED chan
          ELSE /\ m_buffer' = <<>>
               /\ intact' = TRUE
               /\ UNCHANGED <<wlog, answered>>
               /\ Goto("readCONFIG:data")
     /\ UNCHANGED <<cfg, wfl, prog, env, ghost>>
  \/ /\ At("readCONFIG:failed")
     /\ Return(FALSE)
     /\ UNCHANGED <<cfg, wfl, chan, prog, env, ghost>>
  \/ /\ Polled("readCONFIG:data")
     /\ fuses' = FusesRead(ReplyFuses(intact))
     /\ Return(TRUE)
     /\ UNCHANGED <<cfg, ok, v, attempt, compared, chan, prog, env, ghost>>


(***************************************************************************)
(* HexData (hexdata.cpp).  A text is a sequence of character codes, a      *)
(* store a function from start addresses to byte sequences.                *)
(***************************************************************************)
\* std::vector::operator[] with a 0-based index.
Byte(seq, i) == IF i < Len(seq) THEN seq[i + 1] ELSE 0

\* The value of one hexadecimal digit, -1 for any other character.
Digit(c) ==
  IF c \in 48..57 THEN c - 48
  ELSE IF c \in 65..70 THEN c - 65 + 10
  ELSE IF c \in 97..102 THEN c - 97 + 10
  ELSE -1

RECURSIVE HexFrom(_, _, _)
HexFrom(str, i, val) ==
  IF i > Len(str) \/ Digit(str[i]) < 0
    THEN val
    ELSE HexFrom(str, i + 1, val * 16 + Digit(str[i]))

hex_to_num(str) == HexFrom(str, 1, 0)

u8_to_hex(u) ==
  LET g == <<48, 49, 50, 51, 52, 53, 54, 55, 56, 57, 65, 66, 67, 68, 69, 70>>
  IN  <<g[((u \div 16) % 16) + 1], g[(u % 16) + 1]>>

OnesComplement(sum) == 255 - (sum % 256)

\* (~sum + 1) & 0xff
Checksum(sum) == (256 - (sum % 256)) % 256

KeepLow(a, b) == a

RECURSIVE BitOr(_, _)
BitOr(a, b) ==
  IF a = 0 THEN b
  ELSE IF b = 0 THEN a
  ELSE 2 * BitOr(a \div 2, b \div 2) + (IF a % 2 = 1 \/ b % 2 = 1 THEN 1 ELSE 0)

RECURSIVE Sum(_)
Sum(seq) == IF seq = <<>> THEN 0 ELSE Head(seq) + Sum(Tail(seq))

RECURSIVE HexOf(_)
HexOf(seq) == IF seq = <<>> THEN <<>> ELSE u8_to_hex(Head(seq)) \o HexOf(Tail(seq))

\* hexrecord: the record text and the new value of its ext_addr argument.
\* saveHEX passes data of even length, at most 16 bytes.
hexrecord(ext_addr, addr, data) ==
  LET ext  == (addr \div 65536) % 65536
      head == IF ext # ext_addr
                THEN <<58, 48, 50, 48, 48, 48, 48, 48, 52>>
                       \o u8_to_hex(Hi(ext)) \o u8_to_hex(Lo(ext))
                       \o u8_to_hex(Checksum(6 + Hi(ext) + Lo(ext))) \o <<10>>
                ELSE <<>>
      b    == Len(data) % 256
      sum  == b + Hi(addr) + Lo(addr) + 0 + Sum(data)
  IN  [ record   |-> head \o <<58>> \o u8_to_hex(b)
                       \o u8_to_hex(Hi(addr)) \o u8_to_hex(Lo(addr))
                       \o u8_to_hex(0) \o HexOf(data)
                       \o u8_to_hex(Checksum(sum)) \o <<10>>,
        ext_addr |-> ext ]

\* The keys of a std::map in iteration order.
RECURSIVE SortedKeys(_)
SortedKeys(S) ==
  IF S = {} THEN <<>>
  ELSE LET k == CHOOSE x \in S : \A y \in S : x <= y
       IN  <<k>> \o SortedKeys(S \ {k})

\* saveHEX: the records of one segment, in pieces of at most 16 bytes.
RECURSIVE SaveSegment(_, _, _)
SaveSegment(seg, addr, ext_addr) ==
  IF seg = <<>> THEN [text |-> <<>>, ext_addr |-> ext_addr]
  ELSE LET d    == IF Len(seg) > 16 THEN 16 ELSE Len(seg)
           rec  == hexrecord(ext_addr, addr, SubSeq(seg, 1, d))
           rest == SaveSegment(SubSeq(seg, d + 1, Len(seg)), addr + d, rec.ext_addr)
       IN  [text |-> rec.record \o rest.text, ext_addr |-> rest.ext_addr]

RECURSIVE SaveSegments(_, _, _)
SaveSegments(m, ks, ext_addr) ==
  IF ks = <<>> THEN <<>>
  ELSE LET one == SaveSegment(m[Head(ks)], Head(ks), ext_addr)
       IN  one.text \o SaveSegments(m, Tail(ks), one.ext_addr)

\* ":00000001FF\n"
EndOfFile == <<58, 48, 48, 48, 48, 48, 48, 48, 49, 70, 70, 10>>

\* The text saveHEX writes for the store m.
SavedText(m) == SaveSegments(m, SortedKeys(DOMAIN m), 0) \o EndOfFile

\* readline: the next line of the text, and the text after it.
RECURSIVE readline(_, _, _)
readline(text, buf, blank) ==
  IF text = <<>> THEN [line |-> buf, rest |-> <<>>]
  ELSE LET c == Head(text)
       IN  IF c = 10 THEN [line |-> buf, rest |-> Tail(text)]
           ELSE IF c >= 32 /\ c <= 127 /\ (~blank \/ c # 32)
             THEN readline(Tail(text), Append(buf, c), FALSE)
             ELSE readline(Tail(text), buf, blank)

MapKeep(m, k, seg) == m

\* std::map::insert: a key the map already holds keeps its value.
MapInsert(m, k, seg) ==
  IF k \in DOMAIN m THEN m
  ELSE [x \in DOMAIN m \cup {k} |-> IF x = k THEN seg ELSE m[x]]

\* The data loop of a type 00 record: two bytes for every step of four
\* characters, whatever the parity of reclen.
RECURSIVE RecordData(_, _, _)
RecordData(line, i, reclen) ==
  IF i < 2 * reclen
    THEN << hex_to_num(<<Byte(line, i + 9), Byte(line, i + 10)>>),
            hex_to_num(<<Byte(line, i + 11), Byte(line, i + 12)>>) >>
         \o RecordData(line, i + 4, reclen)
    ELSE <<>>

\* The record loop of loadHEX: the segments inserted, and whether the loop
\* ended on an end-of-file record.
RECURSIVE LoadRecords(_, _, _)
LoadRecords(text, ext_address, segs) ==
  LET rl      == readline(text, <<>>, TRUE)
      line    == rl.line
      reclen  == hex_to_num(<<Byte(line, 1), Byte(line, 2)>>)
      recaddr == hex_to_num(<<Byte(line, 3), Byte(line, 4), Byte(line, 5), Byte(line, 6)>>)
      rectype == hex_to_num(<<Byte(line, 7), Byte(line, 8)>>)
      data    == RecordData(line, 0, reclen)
      shift   == hex_to_num(<<Byte(line, 9), Byte(line, 10), Byte(line, 11), Byte(line, 12)>>)
      sum     == reclen + Hi(recaddr) + Lo(recaddr) + rectype
                 + (IF rectype = 0 THEN Sum(data)
                    ELSE IF rectype \in {2, 4} THEN Hi(shift) + Lo(shift)
                    ELSE 0)
      crc     == hex_to_num(<<Byte(line, Len(line) - 2), Byte(line, Len(line) - 1)>>)
      segs1   == IF rectype = 0
                   THEN MapInsert(segs, BitOr(recaddr, ext_address), data)
                   ELSE segs
      ext1    == IF rectype = 2 THEN shift * 16
                 ELSE IF rectype = 4 THEN shift * 65536
                 ELSE ext_address
  IN  IF Len(line) < 3 \/ line[1] # 58 THEN [segs |-> segs, eof |-> FALSE]
      ELSE IF Len(line) # 2 * (reclen + 5) + 1 THEN [segs |-> segs, eof |-> FALSE]
      ELSE IF rectype = 1 THEN [segs |-> segs, eof |-> (reclen = 0)]
      ELSE IF rectype \notin {0, 2, 4} THEN [segs |-> segs, eof |-> FALSE]
      ELSE IF crc # Checksum(sum) THEN [segs |-> segs1, eof |-> FALSE]
      ELSE LoadRecords(rl.rest, ext1, segs1)

\* The overlap test of loadRAW and loadRAW_LE8.
Overlaps(m, addr, size) ==
  \E first \in DOMAIN m :
    \/ addr >= first /\ addr < first + Len(m[first])
    \/ addr + size > first /\ addr + size < first + Len(m[first])

\* The in-place swap of loadRAW, on data of even length.
RECURSIVE SwapBytes(_)
SwapBytes(data) ==
  IF Len(data) < 2 THEN data
  ELSE <<data[2], data[1]>> \o SwapBytes(Tail(Tail(data)))

Unwidened(data) == data

\* loadRAW_LE8: every byte followed by a zero.
RECURSIVE b16(_)
b16(data) ==
  IF data = <<>> THEN <<>> ELSE <<Head(data), 0>> \o b16(Tail(data))

\* std::map::lower_bound, as a position in the sorted keys.
RECURSIVE lower_bound(_, _, _)
lower_bound(ks, i, addr) ==
  IF i <= Len(ks) /\ ks[i] < addr THEN lower_bound(ks, i + 1, addr) ELSE i

NoFill(data, addr, limit, blank_word) == [data |-> data, addr |-> limit]

LsbFirst(blank_word) == <<Lo(blank_word), Hi(blank_word)>>

\* rangeOfData: blank_msb, blank_lsb as they are pushed.
BlankPair(blank_word) == <<Hi(blank_word), Lo(blank_word)>>

\* rangeOfData: "while (addr < limit) push blank_msb, blank_lsb".
RECURSIVE FillBlank(_, _, _, _)
FillBlank(data, addr, limit, blank_word) ==
  IF addr < limit
    THEN FillBlank(data \o BlankPair(blank_word), addr + 2, limit, blank_word)
    ELSE [data |-> data, addr |-> addr]

\* rangeOfData: "while ((addr - shift) > it->first) shift += 2".
RECURSIVE ShiftTo(_, _, _)
ShiftTo(addr, first, shift) ==
  IF addr - shift > first THEN ShiftTo(addr, first, shift + 2) ELSE shift

CopyNone(data, seg, shift, addr, upper_bound, swap_bytes) == [data |-> data, addr |-> addr]

\* rangeOfData: the copy loop over one segment.
RECURSIVE CopySegment(_, _, _, _, _, _)
CopySegment(data, seg, shift, addr, upper_bound, swap_bytes) ==
  IF shift < Len(seg) /\ addr < upper_bound
    THEN CopySegment(data \o (IF swap_bytes
                                THEN <<Byte(seg, shift + 1), Byte(seg, shift)>>
                                ELSE <<Byte(seg, shift), Byte(seg, shift + 1)>>),
                     seg, shift + 2, addr + 2, upper_bound, swap_bytes)
    ELSE [data |-> data, addr |-> addr]

\* rangeOfData: the for (;;) loop, with the iterator as a position in ks.
RECURSIVE RangeLoop(_, _, _, _, _, _, _, _)
RangeLoop(m, ks, it, addr, data, upper_bound, blank_word, swap_bytes) ==
  IF it > Len(ks) \/ ks[it] >= upper_bound
    THEN FillBlank(data, addr, upper_bound, blank_word).data
    ELSE LET first == ks[it]
             seg   == m[first]
             fill  == FillBlank(data, addr, first, blank_word)
             r     == IF first + Len(seg) > addr
                        THEN CopySegment(fill.data, seg, ShiftTo(fill.addr, first, 0),
                                         fill.addr, upper_bound, swap_bytes)
                        ELSE [data |-> data, addr |-> addr]
         IN  IF r.addr = upper_bound
               THEN r.data
               ELSE RangeLoop(m, ks, it + 1, r.addr, r.data, upper_bound, blank_word, swap_bytes)

\* "if (it != end() && it != begin() && it->first > addr) --it"
StepBack(ks, lb, addr) ==
  IF lb <= Len(ks) /\ lb # 1 /\ ks[lb] > addr THEN lb - 1 ELSE lb

rangeOfData(m, lower, word_count, blank_word, swap_bytes) ==
  LET ks == SortedKeys(DOMAIN m)
      it == StepBack(ks, lower_bound(ks, 1, lower), lower)
  IN  RangeLoop(m, ks, it, lower, <<>>, lower + 2 * word_count, blank_word, swap_bytes)

(***************************************************************************)
(* Workflows (main.cpp).  Every label "f:x" is the point of f where the    *)
(* call of x has just returned, with its result in rv.                     *)
(***************************************************************************)
CallStage(s) == Call(s[1], s[2])

\* "buf == data" for the bytes a read operation has just handed over
SameLength(data) == Len(m_buffer) = Len(data)

Same(data) == Len(m_buffer) = Len(data) /\ intact

\* isblank_pic: the blank images the read-back is compared with.
blank_rom_data ==
  rangeOfData(<<>>, m_props.rom_base, m_props.rom_size, m_props.rom_blank, TRUE)

blank_eeprom_data == [i \in 1..m_props.eeprom_size |-> 255]

AskAlways(f) == <<"waitIn", f \o ":waitIn">>

\* After initializeProgrammingVariables: ask for the chip, or go on with the
\* voltages when it hangs on the ICSP port.
Insert(f) ==
  IF args.icsp \/ m_props.socket_hint = ""
    THEN <<"vppOn", f \o ":vppOn">>
    ELSE <<"waitIn", f \o ":waitIn">>

\* read_pic from its k-th optional step on (1 ROM, 2 EEPROM, 3 CONFIG).
ReadStage(k) ==
  IF k <= 1 /\ args.rom THEN <<"readROM", "read_pic:readROM">>
  ELSE IF k <= 2 /\ args.eeprom THEN <<"readEEPROM", "read_pic:readEEPROM">>
  ELSE IF k <= 3 /\ args.config THEN <<"readCONFIG", "read_pic:readCONFIG">>
  ELSE <<"vppOff", "read_pic:vppOff">>

\* read_pic, printing to stdout (no -o file).
read_pic ==
  \/ /\ At("read_pic")
     /\ Call("init", "read_pic:init")
     /\ ok' = TRUE
     /\ UNCHANGED <<cfg, v, attempt, compared, fuses, chan, prog, env, ghost>>
  \/ /\ At("read_pic:init")
     /\ ok' = (ok /\ rv)
     /\ IF ok' THEN CallStage(Insert("read_pic")) ELSE Return(FALSE)
     /\ UNCHANGED <<cfg, v, attempt, compared, fuses, chan, prog, env, ghost>>
  \/ /\ At("read_pic:waitIn")
     /\ ok' = (ok /\ rv)
     /\ IF ok' THEN Call("vppOn", "read_pic:vppOn") ELSE Return(FALSE)
     /\ UNCHANGED <<cfg, v, attempt, compared, fuses, chan, prog, env, ghost>>
  \/ /\ At("read_pic:vppOn")
     /\ ok' = (ok /\ rv)
     /\ IF ok' THEN CallStage(ReadStage(1)) ELSE Return(FALSE)
     /\ UNCHANGED <<cfg, v, attempt, compared, fuses, chan, prog, env, ghost>>
  \/ /\ At("read_pic:readROM")
     /\ ok' = (ok /\ rv)
     /\ CallStage(ReadStage(2))
     /\ UNCHANGED <<cfg, v, attempt, compared, fuses, chan, prog, env, ghost>>
  \/ /\ At("read_pic:readEEPROM")
     /\ ok' = (ok /\ rv)
     /\ CallStage(ReadStage(3))
     /\ UNCHANGED <<cfg, v, attempt, compared, fuses, chan, prog, env, ghost>>
  \/ /\ At("read_pic:readCONFIG")
     /\ ok' = (ok /\ rv)
     /\ CallStage(ReadStage(4))
     /\ UNCHANGED <<cfg, v, attempt, compared, fuses, chan, prog, env, ghost>>
  \/ /\ At("read_pic:vppOff")
     /\ ok' = (ok /\ rv)
     /\ Return(ok')
     /\ UNCHANGED <<cfg, v, attempt, compared, fuses, chan, prog, env, ghost>>

erase_pic ==
  \/ /\ At("erase_pic")
     /\ Call("init", "erase_pic:init")
     /\ ok' = TRUE
     /\ UNCHANGED <<cfg, v, attempt, compared, fuses, chan, prog, env, ghost>>
  \/ /\ At("erase_pic:init")
     /\ ok' = (ok /\ rv)
     /\ IF ok' THEN CallStage(Insert("erase_pic")) ELSE Return(FALSE)
     /\ UNCHANGED <<cfg, v, attempt, compared, fuses, chan, prog, env, ghost>>
  \/ /\ At("erase_pic:waitIn")
     /\ ok' = (ok /\ rv)
     /\ IF ok' THEN Call("vppOn", "erase_pic:vppOn") ELSE Return(FALSE)
     /\ UNCHANGED <<cfg, v, attempt, compared, fuses, chan, prog, env, ghost>>
  \/ /\ At("erase_pic:vppOn")
     /\ ok' = (ok /\ rv)
     /\ IF ok' THEN Call("eraseChip", "erase_pic:eraseChip") ELSE Return(FALSE)
     /\ UNCHANGED <<cfg, v, attempt, compared, fuses, chan, prog, env, ghost>>
  \/ /\ At("erase_pic:eraseChip")
     /\ ok' = (ok /\ rv)
     /\ Call("vppOff", "erase_pic:vppOff")
     /\ UNCHANGED <<cfg, v, attempt, compared, fuses, chan, prog, env, ghost>>
  \/ /\ At("erase_pic:vppOff")
     /\ ok' = (ok /\ rv)
     /\ Return(ok')
     /\ UNCHANGED <<cfg, v, attempt, compared, fuses, chan, prog, env, ghost>>

\* program_pic: the chip is erased before it is written.
EraseFirst == m_props.flag_flash_chip /\ args.rom /\ args.eeprom /\ args.config

\* A program_pic that goes on programming after a failed voltage cycle.
CycleIgnored(r) == FALSE

\* program_pic: a failed voltage cycle ends the workflow.
CycleFailed(r) == ~r

\* A program_pic that reads CONFIG back whatever the earlier comparisons gave.
VerifyConfigAlways(okNow) == args.config

\* A program_pic that never reads CONFIG back.
VerifyConfigNever(okNow) == FALSE

\* program_pic: CONFIG is read back and compared.
VerifyConfig(okNow) == okNow /\ args.config

\* program_pic from its k-th optional step on: 1 erase, 2..4 program ROM,
\* EEPROM, CONFIG, 5..6 read back ROM, EEPROM, 7 commit, 8 read back CONFIG.
ProgramStage(k, okNow) ==
  IF k <= 1 /\ EraseFirst THEN <<"eraseChip", "program_pic:eraseChip">>
  ELSE IF k <= 2 /\ args.rom THEN <<"programROM", "program_pic:programROM">>
  ELSE IF k <= 3 /\ args.eeprom /\ m_props.eeprom_size > 0
    THEN <<"programEEPROM", "program_pic:programEEPROM">>
  ELSE IF k <= 4 /\ args.config THEN <<"programCONFIG", "program_pic:programCONFIG">>
  ELSE IF k <= 5 /\ args.rom THEN <<"readROM", "program_pic:readROM">>
  ELSE IF k <= 6 /\ args.eeprom /\ m_props.eeprom_size > 0
    THEN <<"readEEPROM", "program_pic:readEEPROM">>
  ELSE IF k <= 7 /\ okNow /\ m_props.core_bits = 16 /\ args.config
    THEN <<"commit", "program_pic:commit">>
  ELSE IF k <= 8 /\ VerifyConfig(okNow) THEN <<"readCONFIG", "program_pic:readCONFIG">>
  ELSE <<"vppOff", "program_pic:vppOff">>

\* program_pic with program = true.
writeMode(op) == TRUE

\* main: the argument "program" it passes to program_pic, true for PROGRAM
\* and false for DRYRUN.
program(op) == op = "PROGRAM"

program_pic ==
  \/ /\ At("program_pic")
     /\ ~program(args.op)
     /\ ok' = TRUE
     /\ Return(ok')
     /\ UNCHANGED <<cfg, v, attempt, compared, fuses, chan, prog, env, ghost>>
  \/ /\ At("program_pic")
     /\ program(args.op)
     /\ Call("init", "program_pic:init")
     /\ ok' = TRUE
     /\ UNCHANGED <<cfg, v, attempt, compared, fuses, chan, prog, env, ghost>>
  \/ /\ At("program_pic:init")
     /\ ok' = (ok /\ rv)
     /\ IF ok' THEN CallStage(Insert("program_pic")) ELSE Return(FALSE)
     /\ UNCHANGED <<cfg, v, attempt, compared, fuses, chan, prog, env, ghost>>
  \/ /\ At("program_pic:waitIn")
     /\ ok' = (ok /\ rv)
     /\ IF ok' THEN Call("vppOn", "program_pic:vppOn") ELSE Return(FALSE)
     /\ UNCHANGED <<cfg, v, attempt, compared, fuses, chan, prog, env, ghost>>
  \/ /\ At("program_pic:vppOn")
     /\ ok' = (ok /\ rv)
     /\ IF ok' THEN CallStage(ProgramStage(1, ok')) ELSE Return(FALSE)
     /\ UNCHANGED <<cfg, v, attempt, compared, fuses, chan, prog, env, ghost>>
  \/ /\ At("program_pic:eraseChip")
     /\ Call("cycle", "program_pic:cycle")
     /\ UNCHANGED <<cfg, wfl, chan, prog, env, ghost>>
  \/ /\ At("program_pic:cycle")
     /\ IF CycleFailed(rv) THEN Return(FALSE) ELSE CallStage(ProgramStage(2, ok))
     /\ UNCHANGED <<cfg, wfl, chan, prog, env, ghost>>
  \/ /\ At("program_pic:programROM")
     /\ CallStage(ProgramStage(3, ok))
     /\ UNCHANGED <<cfg, wfl, chan, prog, env, ghost>>
  \/ /\ At("program_pic:programEEPROM")
     /\ CallStage(ProgramStage(4, ok))
     /\ UNCHANGED <<cfg, wfl, chan, prog, env, ghost>>
  \/ /\ At("program_pic:programCONFIG")
     /\ CallStage(ProgramStage(5, ok))
     /\ UNCHANGED <<cfg, wfl, chan, prog, env, ghost>>
  \/ /\ At("program_pic:readROM")
     /\ ok' = (ok /\ rv /\ Same(rom_data))
     /\ compared' = compared \cup {[region |-> "ROM", same |-> rv /\ Same(rom_data)]}
     /\ CallStage(ProgramStage(6, ok'))
     /\ UNCHANGED <<cfg, v, attempt, fuses, chan, prog, env, ghost>>
  \/ /\ At("program_pic:readEEPROM")
     /\ ok' = (ok /\ rv /\ Same(eeprom_data))
     /\ compared' = compared \cup {[region |-> "EEPROM", same |-> rv /\ Same(eeprom_data)]}
     /\ CallStage(ProgramStage(7, ok'))
     /\ UNCHANGED <<cfg, v, attempt, fuses, chan, prog, env, ghost>>
  \/ /\ At("program_pic:commit")
     /\ CallStage(ProgramStage(8, ok))
     /\ UNCHANGED <<cfg, wfl, chan, prog, env, ghost>>
  \/ /\ At("program_pic:readCONFIG")
     /\ ok' = (ok /\ rv /\ fuses = fuse_values)
     /\ compared' = compared \cup {[region |-> "CONFIG", same |-> rv /\ fuses = fuse_values]}
     /\ Call("vppOff", "program_pic:vppOff")
     /\ UNCHANGED <<cfg, v, attempt, fuses, chan, prog, env, ghost>>
  \/ /\ At("program_pic:vppOff")
     /\ ok' = (ok /\ rv)
     /\ Return(ok')
     /\ UNCHANGED <<cfg, v, attempt, compared, fuses, chan, prog, env, ghost>>

\* verify_pic / isblank_pic from their k-th optional step on (1 ROM, 2 EEPROM).
CheckStage(f, k) ==
  IF k <= 1 /\ args.rom THEN <<"readROM", f \o ":readROM">>
  ELSE IF k <= 2 /\ args.eeprom /\ m_props.eeprom_size > 0
    THEN <<"readEEPROM", f \o ":readEEPROM">>
  ELSE <<"vppOff", f \o ":vppOff">>

verify_pic ==
  \/ /\ At("verify_pic")
     /\ Call("init", "verify_pic:init")
     /\ ok' = TRUE
     /\ UNCHANGED <<cfg, v, attempt, compared, fuses, chan, prog, env, ghost>>
  \/ /\ At("verify_pic:init")
     /\ CallStage(Insert("verify_pic"))
     /\ UNCHANGED <<cfg, wfl, chan, prog, env, ghost>>
  \/ /\ At("verify_pic:waitIn")
     /\ ok' = (ok /\ rv)
     /\ IF ok' THEN Call("vppOn", "verify_pic:vppOn") ELSE Return(FALSE)
     /\ UNCHANGED <<cfg, v, attempt, compared, fuses, chan, prog, env, ghost>>
  \/ /\ At("verify_pic:vppOn")
     /\ ok' = (ok /\ rv)
     /\ IF ok' THEN CallStage(CheckStage("verify_pic", 1)) ELSE Return(FALSE)
     /\ UNCHANGED <<cfg, v, attempt, compared, fuses, chan, prog, env, ghost>>
  \/ /\ At("verify_pic:readROM")
     /\ ok' = (ok /\ rv /\ Same(rom_data))
     /\ CallStage(CheckStage("verify_pic", 2))
     /\ UNCHANGED <<cfg, v, attempt, compared, fuses, chan, prog, env, ghost>>
  \/ /\ At("verify_pic:readEEPROM")
     /\ ok' = (ok /\ rv /\ Same(eeprom_data))
     /\ CallStage(CheckStage("verify_pic", 3))
     /\ UNCHANGED <<cfg, v, attempt, compared, fuses, chan, prog, env, ghost>>
  \/ /\ At("verify_pic:vppOff")
     /\ ok' = (ok /\ rv)
     /\ Return(ok')
     /\ UNCHANGED <<cfg, v, attempt, compared, fuses, chan, prog, env, ghost>>

isblank_pic ==
  \/ /\ At("isblank_pic")
     /\ Call("init", "isblank_pic:init")
     /\ ok' = TRUE
     /\ UNCHANGED <<cfg, v, attempt, compared, fuses, chan, prog, env, ghost>>
  \/ /\ At("isblank_pic:init")
     /\ ok' = (ok /\ rv)
     /\ IF ok' THEN CallStage(Insert("isblank_pic")) ELSE Return(FALSE)
     /\ UNCHANGED <<cfg, v, attempt, compared, fuses, chan, prog, env, ghost>>
  \/ /\ At("isblank_pic:waitIn")
     /\ ok' = (ok /\ rv)
     /\ IF ok' THEN Call("vppOn", "isblank_pic:vppOn") ELSE Return(FALSE)
     /\ UNCHANGED <<cfg, v, attempt, compared, fuses, chan, prog, env, ghost>>
  \/ /\ At("isblank_pic:vppOn")
     /\ ok' = (ok /\ rv)
     /\ IF ok' THEN CallStage(CheckStage("isblank_pic", 1)) ELSE Return(FALSE)
     /\ UNCHANGED <<cfg, v, attempt, compared, fuses, chan, prog, env, ghost>>
  \/ /\ At("isblank_pic:readROM")
     /\ ok' = (ok /\ rv)
     /\ compared' = IF ~ok' \/ Len(m_buffer) # 2 * m_props.rom_size
                      THEN compared
                      ELSE compared \cup {[region |-> "ROM", same |-> Same(blank_rom_data)]}
     /\ CallStage(CheckStage("isblank_pic", 2))
     /\ UNCHANGED <<cfg, v, attempt, fuses, chan, prog, env, ghost>>
  \/ /\ At("isblank_pic:readEEPROM")
     /\ ok' = (ok /\ rv)
     /\ compared' = IF ~ok' \/ Len(m_buffer) # m_props.eeprom_size
                      THEN compared
                      ELSE compared \cup {[region |-> "EEPROM", same |-> Same(blank_eeprom_data)]}
     /\ CallStage(CheckStage("isblank_pic", 3))
     /\ UNCHANGED <<cfg, v, attempt, fuses, chan, prog, env, ghost>>
  \/ /\ At("isblank_pic:vppOff")
     /\ ok' = (ok /\ rv)
     /\ Return(ok')
     /\ UNCHANGED <<cfg, v, attempt, compared, fuses, chan, prog, env, ghost>>

\* A close that leaves the port as it is.
closeNothing(p) == p

\* COMPort::close, called by Programmer::disconnect and ~Programmer.
close(p) == "closed"

\* One line of a hex file, its checksum off by delta.
Record(reclen, addr, type, bytes, delta) ==
  <<58>> \o u8_to_hex(reclen) \o u8_to_hex(Hi(addr)) \o u8_to_hex(Lo(addr))
         \o u8_to_hex(type) \o HexOf(bytes)
         \o u8_to_hex(Checksum(reclen + Hi(addr) + Lo(addr) + type + Sum(bytes)) + delta)
         \o <<10>>

\* Hex files that saveHEX did not write.
InputFiles ==
  { \* " :020100000a0bE8" with a leading blank and small letters
    <<32, 58, 48, 50, 48, 49, 48, 48, 48, 48, 48, 97, 48, 98, 69, 56, 10>> \o EndOfFile,
    \* a record of one byte
    Record(1, 0, 0, <<170>>, 0) \o EndOfFile,
    \* two records that overlap
    Record(4, 0, 0, <<1, 2, 3, 4>>, 0) \o Record(2, 2, 0, <<5, 6>>, 0) \o EndOfFile,
    \* two records at one address
    Record(2, 4, 0, <<1, 2>>, 0) \o Record(2, 4, 0, <<5, 6>>, 0) \o EndOfFile,
    \* extended linear and extended segment addresses
    Record(2, 0, 4, <<0, 1>>, 0) \o Record(2, 16, 0, <<1, 2>>, 0) \o EndOfFile,
    Record(2, 0, 2, <<0, 16>>, 0) \o Record(2, 1, 0, <<1, 2>>, 0) \o EndOfFile,
    \* a bad checksum, a record type that is not supported, no end of file
    Record(2, 0, 0, <<1, 2>>, 1) \o EndOfFile,
    Record(2, 0, 3, <<1, 2>>, 0) \o EndOfFile,
    Record(2, 0, 0, <<1, 2>>, 0),
    \* an end of file record with a wrong checksum, and one with a byte of data
    Record(2, 6, 0, <<1, 2>>, 0) \o Record(0, 0, 1, <<>>, 1),
    Record(2, 8, 0, <<1, 2>>, 0) \o Record(1, 0, 1, <<0>>, 0),
    <<>> }

\* main: the workflow function of each operation.
Workflow(op) ==
  CASE op = "DUMP"    -> "read_pic"
    [] op = "ERASE"   -> "erase_pic"
    [] op = "PROGRAM" -> "program_pic"
    [] op = "VERIFY"  -> "verify_pic"
    [] op = "ISBLANK" -> "isblank_pic"

\* main, from the connect of the chosen operation to the exit code; the
\* transport is closed by disconnect or by ~Programmer.
main ==
  \/ /\ At("main")
     /\ args.op # "DRYRUN"
     /\ Call("connect", "main:connect")
     /\ UNCHANGED <<cfg, wfl, chan, prog, env, ghost>>
  \/ /\ At("main")
     /\ args.op = "DRYRUN"
     /\ \E text \in InputFiles \cup {<<"fopen fails">>} :
          LET r == IF text \in InputFiles THEN LoadRecords(text, 0, <<>>)
                   ELSE [segs |-> <<>>, eof |-> FALSE]
          IN  /\ m_segments' = r.segs
              /\ ret' = [op |-> "loadHEX", ok |-> r.eof]
              /\ IF r.eof
                   THEN Call("program_pic", "main:workflow") /\ status' = status
                   ELSE stk' = <<>> /\ status' = "EXIT_FAILURE" /\ UNCHANGED <<rv, acked>>
     /\ UNCHANGED <<args, m_props, file, call, chip, wfl, chan, prog, port, opens, silent, ghost>>
  \/ /\ At("main:connect")
     /\ rv
     /\ args.op # "PING"
     /\ Call(Workflow(args.op), "main:workflow")
     /\ UNCHANGED <<cfg, wfl, chan, prog, env, ghost>>
  \/ /\ At("main:connect")
     /\ ~rv \/ args.op = "PING"
     /\ stk' = <<>>
     /\ port' = close(port)
     /\ status' = IF rv THEN "EXIT_SUCCESS" ELSE "EXIT_FAILURE"
     /\ UNCHANGED <<cfg, rv, acked, wfl, chan, prog, opens, silent, ghost>>
  \/ /\ At("main:workflow")
     /\ stk' = <<>>
     /\ port' = IF opens = 0 THEN port ELSE close(port)
     /\ status' = IF rv THEN "EXIT_SUCCESS" ELSE "EXIT_FAILURE"
     /\ UNCHANGED <<cfg, rv, acked, wfl, chan, prog, opens, silent, ghost>>

(***************************************************************************)
(* Specification.                                                          *)
(***************************************************************************)
Init ==
  /\ args \in Arguments
  /\ m_props \in IF args.op = "PING" THEN {Properties} ELSE {configure(c) : c \in Chips}
  /\ stk = <<"main">>
  /\ rv = FALSE
  /\ acked = TRUE
  /\ ok = TRUE
  /\ v = 0
  /\ attempt = 0
  /\ compared = {}
  /\ fuses = <<>>
  /\ m_buffer = <<>>
  /\ intact = TRUE
  /\ m_version = 0
  /\ m_protocol = <<>>
  /\ m_VPPEnabled \in BOOLEAN
  /\ port = "closed"
  /\ opens = 0
  /\ status = "running"
  /\ wlog = <<>>
  /\ answered = TRUE
  /\ session = FALSE
  /\ vppOnOk = 0
  /\ vppOffCalls = 0
  /\ silent = FALSE
  /\ m_segments = <<>>
  /\ file = <<>>
  /\ ret = [op |-> "none"]
  /\ call = [op |-> "main"]
  /\ chip = Loaded

Next ==
  \/ main
  \/ connect
  \/ commandStart
  \/ commandEnd
  \/ waitUntilChipInSocket
  \/ initializeProgrammingVariables
  \/ setProgrammingVoltages
  \/ cycleProgrammingVoltages
  \/ eraseChip
  \/ programROM
  \/ programEEPROM
  \/ programCONFIG
  \/ programCOMMIT_18FXXXX_FUSE
  \/ readROM
  \/ readEEPROM
  \/ readCONFIG
  \/ read_pic
  \/ erase_pic
  \/ program_pic
  \/ verify_pic
  \/ isblank_pic
  \/ readData

Spec == Init /\ [][Next]_vars

\* The programmer stops sending (switched off, cable pulled): from now on
\* every readData comes back after the transport's timeout with no byte.
goSilent ==
  /\ status = "running"
  /\ ~silent
  /\ silent' = TRUE
  /\ UNCHANGED <<cfg, ctl, wfl, chan, prog, port, opens, status, ghost>>

NextF == Next \/ goSilent

\* The program itself never pauses: whenever it can take a step it does.
SpecFair == Init /\ [][NextF]_vars /\ WF_vars(Next)


(***************************************************************************)
(* HexData on its own, used the way main.cpp uses it: a store is built by  *)
(* loadRAW, loadRAW_LE8 and loadHEX, then written by saveHEX and read back *)
(* by loadHEX, or queried by rangeOfData.  rangeOfData changes nothing, so *)
(* a behaviour ends with its one query.  The arguments come from the sets  *)
(* below; the programmer side of the state stays as Init leaves it.        *)
(***************************************************************************)
MaxSegments == 2
MaxWords    == 3

k150 == <<args, m_props, call, chip, ctl, wfl, chan, prog, env, ghost>>

Addresses   == {0, 2, 256, 65520}
LowerBounds == {0, 2, 254}
BlankWord   == {65535, 16383}
RawData     == { <<170, 187>>, <<1, 2, 3, 4>>, <<7>>, [i \in 1..18 |-> 13 * i] }
RawBytes    == { <<>>, <<9>>, <<170, 187>> }

Queried == ret.op = "rangeOfData"

loadHEX ==
  /\ ~Queried
  /\ \/ \E text \in IF file = <<>> THEN InputFiles ELSE {file} :
          LET r == LoadRecords(text, 0, <<>>)
          IN  /\ m_segments' = r.segs
              /\ ret' = [op |-> "loadHEX", ok |-> r.eof, saved |-> (file # <<>>),
                         text |-> text]
     \/ \* fopen fails
        /\ ret' = [op |-> "loadHEX", ok |-> FALSE, saved |-> FALSE, text |-> <<>>]
        /\ UNCHANGED m_segments
  /\ UNCHANGED <<file, k150>>

saveHEX ==
  /\ ~Queried
  /\ file = <<>>
  /\ \/ /\ file' = SavedText(m_segments)
        /\ ret' = [op |-> "saveHEX", ok |-> TRUE]
     \/ \* fopen fails
        /\ ret' = [op |-> "saveHEX", ok |-> FALSE]
        /\ UNCHANGED file
  /\ UNCHANGED <<m_segments, k150>>

loadRAW ==
  /\ ~Queried
  /\ file = <<>>
  /\ Cardinality(DOMAIN m_segments) < MaxSegments
  /\ \E addr \in Addresses, data \in RawData, swap_bytes \in BOOLEAN :
       LET done == /\ Len(data) % 2 = 0
                   /\ ~Overlaps(m_segments, addr, Len(data))
                   /\ addr \notin DOMAIN m_segments
       IN  /\ m_segments' =
                IF done
                  THEN MapInsert(m_segments, addr,
                                 IF swap_bytes THEN SwapBytes(data) ELSE data)
                  ELSE m_segments
           /\ ret' = IF done THEN [op |-> "loadRAW", ok |-> TRUE]
                      ELSE [op |-> "loadRAW", ok |-> FALSE, addr |-> addr, data |-> data]
  /\ UNCHANGED <<file, k150>>

loadRAW_LE8 ==
  /\ ~Queried
  /\ file = <<>>
  /\ Cardinality(DOMAIN m_segments) < MaxSegments
  /\ \E addr \in Addresses, data \in RawBytes :
       LET done == /\ ~Overlaps(m_segments, addr, 2 * Len(data))
                   /\ addr \notin DOMAIN m_segments
       IN  /\ m_segments' = IF done THEN MapInsert(m_segments, addr, b16(data))
                                    ELSE m_segments
           /\ ret' = IF done
                        THEN [op |-> "loadRAW_LE8", ok |-> TRUE, addr |-> addr, data |-> data]
                        ELSE [op |-> "loadRAW_LE8", ok |-> FALSE]
  /\ UNCHANGED <<file, k150>>

\* rangeOfData, called with an even lower bound as its assert demands.
rangeOfDataCall ==
  /\ ~Queried
  /\ \E lower \in LowerBounds, n \in 0..MaxWords, blank \in BlankWord,
        swap_bytes \in BOOLEAN :
       ret' = [op |-> "rangeOfData", lower |-> lower, n |-> n, blank |-> blank,
               swap |-> swap_bytes,
               data |-> rangeOfData(m_segments, lower, n, blank, swap_bytes)]
  /\ UNCHANGED <<m_segments, file, k150>>

NextHex == loadHEX \/ saveHEX \/ loadRAW \/ loadRAW_LE8 \/ rangeOfDataCall

\* The store as constructed; the programmer side is that of one fixed run.
InitHex == Init /\ args.op = "PING" /\ ~m_VPPEnabled

SpecHex == InitHex /\ [][NextHex]_vars

(***************************************************************************)
(* The Programmer operations that take data, called directly: a caller     *)
(* other than main.cpp may pass any vector.  The session is open and the   *)
(* programming voltages are on, as the operations assert.                  *)
(***************************************************************************)
\* Chip properties with room for two chunks of ROM and two pairs of EEPROM.
ApiProps == { [configure(c) EXCEPT !.rom_size = 32, !.eeprom_size = 4] : c \in Chips }

ApiCalls ==
  { [op |-> "programROM", data |-> [i \in 1..n |-> i]] : n \in {0, 32, 33, 48, 64, 96} }
  \cup { [op |-> "programEEPROM", data |-> [i \in 1..n |-> 100 + i]] : n \in {0, 2, 3, 4, 6} }
  \cup { [op |-> "programCONFIG", id |-> id, fuses |-> fs] :
           id \in { <<>>, <<1, 2, 3, 4>>, [i \in 1..9 |-> 10 + i] },
           fs \in { [i \in 1..n |-> 4660 + i] : n \in {0, 1, 2, 3, 7} } }
  \cup { [op |-> "init", icsp_mode |-> b] : b \in BOOLEAN }
  \cup { [op |-> o] : o \in {"isBlankROM", "waitIn", "waitOut"} }

InitApi ==
  /\ call \in ApiCalls
  /\ m_props \in ApiProps
  /\ args = [op |-> "PING", rom |-> FALSE, eeprom |-> FALSE, config |-> FALSE, icsp |-> FALSE]
  /\ stk = <<call.op, "caller">>
  /\ rv = FALSE
  /\ acked = TRUE
  /\ ok = TRUE
  /\ v = 0
  /\ attempt = 0
  /\ compared = {}
  /\ fuses = <<>>
  /\ m_buffer = <<>>
  /\ intact = TRUE
  /\ m_version = 3
  /\ m_protocol = P18A
  /\ m_VPPEnabled = TRUE
  /\ port = "open"
  /\ opens = 1
  /\ status = "running"
  /\ wlog = <<>>
  /\ answered = TRUE
  /\ session = TRUE
  /\ vppOnOk = 1
  /\ vppOffCalls = 0
  /\ silent = FALSE
  /\ m_segments = <<>>
  /\ file = <<>>
  /\ ret = [op |-> "none"]
  /\ chip = Loaded

NextApi ==
  \/ initializeProgrammingVariables
  \/ programROM
  \/ programEEPROM
  \/ programCONFIG
  \/ isBlankROM
  \/ commandStart
  \/ commandEnd
  \/ waitUntilChipInSocket
  \/ waitUntilChipOutOfSocket
  \/ readData

SpecApi == InitApi /\ [][NextApi]_vars

\* The runs of main.cpp together with the direct calls.
SpecAll == (Init \/ InitApi) /\ [][Next \/ NextApi]_vars

(***************************************************************************)
(* CHIPInfo::loaddata on its own (chipinfo.cpp): one step per line of the  *)
(* file.  Strings are sequences of character codes and no line is as long  *)
(* as the line buffer.  The files of the model hold the keys CHIPNAME,     *)
(* CHIPID, CORETYPE and FLASHCHIP only; the other keys are stored the same  *)
(* way: as they are, upper-cased, as a number or as a flag.                *)
(***************************************************************************)
toupper(c) == IF c \in 97..122 THEN c - 32 ELSE c
upperStr(buf) == [n \in 1..Len(buf) |-> toupper(buf[n])]

\* std::string::substr(pos, count), pos counted from 0
substr(buf, pos, count) ==
  SubSeq(buf, pos + 1, IF pos + count > Len(buf) THEN Len(buf) ELSE pos + count)

\* unwrap: from the character after the first '"', l - f characters.
unwrap(buf) ==
  LET at == { n \in 0..(Len(buf) - 1) : buf[n + 1] = 34 }
      f  == CHOOSE n \in at : \A m \in at : n <= m
      l  == CHOOSE n \in at : \A m \in at : n >= m
  IN  IF at = {} THEN buf ELSE substr(buf, f + 1, l - f)

RECURSIVE Tokens(_, _, _, _, _, _, _)
Tokens(str, pos, encaps, token, tokens, sep, enc) ==
  IF pos > Len(str) THEN [token |-> token, tokens |-> tokens]
  ELSE IF ~encaps /\ sep # 0 /\ str[pos] = sep
    THEN Tokens(str, pos + 1, encaps, <<>>, Append(tokens, token), sep, enc)
    ELSE Tokens(str, pos + 1, IF str[pos] = enc THEN ~encaps ELSE encaps,
                Append(token, str[pos]), tokens, sep, enc)

\* tokenize: the tokens between the separators outside quotes; with
\* trimnull the empty tokens are left out.
tokenize(str, sep, enc, trimnull) ==
  LET r   == Tokens(str, 1, FALSE, <<>>, <<>>, sep, enc)
      all == IF str = <<>> THEN <<>> ELSE Append(r.tokens, r.token)
  IN  IF trimnull THEN SelectSeq(all, LAMBDA t : t # <<>>) ELSE all

CHIPNAME  == <<67, 72, 73, 80, 78, 65, 77, 69>>
CHIPID    == <<67, 72, 73, 80, 73, 68>>
CORETYPE  == <<67, 79, 82, 69, 84, 89, 80, 69>>
FLASHCHIP == <<70, 76, 65, 83, 72, 67, 72, 73, 80>>
LIST      == <<76, 73, 83, 84>>

\* loaddata: the member a key/value line of the record sets.
SetInfo(info, vn, value) ==
  IF vn = CHIPID THEN [info EXCEPT !.chip_id = unwrap(value)]
  ELSE IF vn = CORETYPE THEN [info EXCEPT !.core_type = upperStr(unwrap(value))]
  ELSE IF vn = FLASHCHIP
    THEN [info EXCEPT !.flash_chip = (upperStr(unwrap(value)) = <<89>>)]
  ELSE info

\* The files of chip records and the names asked for.
DatFiles ==
  {
    \* CHIPname=A1 / CHIPID=01 / FLASHCHIP=y /  / CHIPname=b2 / CHIPID=02 / CORETYPE=bit14_b / 
    <<67, 72, 73, 80, 110, 97, 109, 101, 61, 65, 49, 10, 67, 72, 73, 80,
      73, 68, 61, 48, 49, 10, 70, 76, 65, 83, 72, 67, 72, 73, 80, 61,
      121, 10, 10, 67, 72, 73, 80, 110, 97, 109, 101, 61, 98, 50, 10,
      67, 72, 73, 80, 73, 68, 61, 48, 50, 10, 67, 79, 82, 69, 84, 89,
      80, 69, 61, 98, 105, 116, 49, 52, 95, 98, 10>>,
    \* CHIPname="A1" / CHIPID="01" / 
    <<67, 72, 73, 80, 110, 97, 109, 101, 61, 34, 65, 49, 34, 10, 67, 72,
      73, 80, 73, 68, 61, 34, 48, 49, 34, 10>>,
    \* CHIPID=09 /   CHIPname=a1 / LIST1 FUSE1 "WDT" "On"=3FFF / nonsense / CORETYPE=bit16_a
    <<67, 72, 73, 80, 73, 68, 61, 48, 57, 10, 32, 32, 67, 72, 73, 80,
      110, 97, 109, 101, 61, 97, 49, 10, 76, 73, 83, 84, 49, 32, 70,
      85, 83, 69, 49, 32, 34, 87, 68, 84, 34, 32, 34, 79, 110, 34,
      61, 51, 70, 70, 70, 10, 110, 111, 110, 115, 101, 110, 115, 101,
      10, 67, 79, 82, 69, 84, 89, 80, 69, 61, 98, 105, 116, 49, 54,
      95, 97>>,
    \* CHIPname=A1X / CHIPID=03 /  /  / CHIPname=A1 / CHIPID=04 / 
    <<67, 72, 73, 80, 110, 97, 109, 101, 61, 65, 49, 88, 10, 67, 72, 73,
      80, 73, 68, 61, 48, 51, 10, 10, 10, 67, 72, 73, 80, 110, 97,
      109, 101, 61, 65, 49, 10, 67, 72, 73, 80, 73, 68, 61, 48, 52,
      10>>,
    \* CHIPname= / CHIPID=05 / 
    <<67, 72, 73, 80, 110, 97, 109, 101, 61, 10, 67, 72, 73, 80, 73, 68,
      61, 48, 53, 10>>,
    \* CHIPname=b2 / CHIPID=06 / CHIPname=A1 / CHIPID=07 / 
    <<67, 72, 73, 80, 110, 97, 109, 101, 61, 98, 50, 10, 67, 72, 73, 80,
      73, 68, 61, 48, 54, 10, 67, 72, 73, 80, 110, 97, 109, 101, 61,
      65, 49, 10, 67, 72, 73, 80, 73, 68, 61, 48, 55, 10>>,
    <<>> }

\* a1, B2, A1", zz and the empty name
ChipNames == { <<97, 49>>, <<66, 50>>, <<65, 49, 34>>, <<122, 122>>, <<>> }

loaddata ==
  \/ /\ chip.pc = "loaddata"
     /\ \/ chip' = [chip EXCEPT !.pc = "line", !.opened = TRUE, !.chipfound = FALSE,
                                !.m_info.valid = FALSE,
                                !.m_info.chip_name = upperStr(chip.chipname)]
        \/ \* fopen fails
           chip' = [chip EXCEPT !.pc = "done", !.rv = FALSE]
     /\ UNCHANGED <<args, m_props, m_segments, file, ret, call, ctl, wfl, chan, prog,
                    env, ghost>>
  \/ /\ chip.pc = "line"
     /\ LET rl     == readline(chip.file, <<>>, TRUE)
            eof    == \A i \in 1..Len(chip.file) : chip.file[i] # 10
            buf    == rl.line
            tokens == tokenize(buf, 32, 34, TRUE)
            var    == tokenize(buf, 61, 34, FALSE)
            vn     == upperStr(var[1])
            keyed  == /\ tokens # <<>>
                      /\ substr(tokens[1], 0, 4) # LIST
                      /\ Len(var) > 1
            found  == \/ chip.chipfound
                      \/ /\ keyed
                         /\ vn = CHIPNAME
                         /\ upperStr(unwrap(var[2])) = chip.m_info.chip_name
            info   == IF chip.chipfound /\ keyed
                        THEN SetInfo(chip.m_info, vn, var[2])
                        ELSE chip.m_info
            stop   == eof \/ (tokens = <<>> /\ chip.chipfound)
        IN  chip' = [chip EXCEPT !.file = rl.rest, !.chipfound = found,
                                 !.m_info = [info EXCEPT !.valid = (stop /\ found)],
                                 !.pc = IF stop THEN "done" ELSE "line",
                                 !.rv = (stop /\ found)]
     /\ UNCHANGED <<args, m_props, m_segments, file, ret, call, ctl, wfl, chan, prog,
                    env, ghost>>

InitChip ==
  /\ \E f \in DatFiles, n \in ChipNames :
       chip = [pc |-> "loaddata", datfile |-> f, file |-> f, chipname |-> n,
               opened |-> FALSE, chipfound |-> FALSE, m_info |-> CHIP, rv |-> FALSE]
  /\ args = [op |-> "PING", rom |-> FALSE, eeprom |-> FALSE, config |-> FALSE, icsp |-> FALSE]
  /\ m_props = Properties
  /\ call = [op |-> "main"]
  /\ stk = <<"main">>
  /\ rv = FALSE
  /\ acked = TRUE
  /\ ok = TRUE
  /\ v = 0
  /\ attempt = 0
  /\ compared = {}
  /\ fuses = <<>>
  /\ m_buffer = <<>>
  /\ intact = TRUE
  /\ m_version = 0
  /\ m_protocol = <<>>
  /\ m_VPPEnabled = FALSE
  /\ port = "closed"
  /\ opens = 0
  /\ status = "running"
  /\ wlog = <<>>
  /\ answered = TRUE
  /\ session = FALSE
  /\ vppOnOk = 0
  /\ vppOffCalls = 0
  /\ silent = FALSE
  /\ m_segments = <<>>
  /\ file = <<>>
  /\ ret = [op |-> "none"]

SpecChip == InitChip /\ [][loaddata]_vars

(***************************************************************************)
(* Properties.                                                             *)
(***************************************************************************)
\* The workflow function has returned to main.
WorkflowReturned == At("main:workflow")

\* The step writes a message of one of the commands in cmds.
Writes(cmds) ==
  /\ Len(wlog') = Len(wlog) + 1
  /\ wlog'[Len(wlog')].cmd \in cmds

\* C1: on every path on which setProgrammingVoltages(true) succeeded,
\* setProgrammingVoltages(false) has been called when the workflow returns.
C1_VppReleasedOnReturn ==
  WorkflowReturned => (vppOnOk > 0 => vppOffCalls > 0)

\* C2: when the workflow returns, the number of successful
\* setProgrammingVoltages(true) calls equals the number of
\* setProgrammingVoltages(false) calls.
C2_VppPaired ==
  WorkflowReturned => vppOnOk = vppOffCalls

\* The operations that assert m_VPPEnabled on entry.
MemoryOps ==
  { "programROM", "programEEPROM", "programCONFIG", "commit",
    "readROM", "readEEPROM", "readCONFIG", "eraseChip" }

\* C3: m_VPPEnabled is true whenever a memory operation is entered, so its
\* assert never fails.
C3_VppAtEntry ==
  (stk # <<>> /\ Head(stk) \in MemoryOps) => m_VPPEnabled

\* programROM is entered, voltages on, after the erase and the voltage cycle.
C3_Witness ==
  /\ At("programROM")
  /\ m_VPPEnabled
  /\ \E i \in 1..Len(wlog) : wlog[i].cmd = 6

VoltageAndMemory == {4, 6} \cup (7..14) \cup {17}

\* C4: every voltage command and every memory command is written while a
\* command session is open (after a successful commandStart, before the
\* next commandEnd).
C4_InSession ==
  [][Writes(VoltageAndMemory) => session]_vars

ConnectLabels ==
  {"connect", "connect:greet", "connect:started", "connect:proto", "connect:end"}

ConnectReturns(b) ==
  /\ Head(stk) \in ConnectLabels
  /\ stk' = Tail(stk)
  /\ rv' = b

\* C5: connect returns success only after a greeting starting with 'B', a
\* successful commandStart and the reply "P18A" to {21}; any other greeting
\* or protocol name makes it return failure; after 'B',3 / 'Q','P' / "P18A"
\* / 'Q' it returns success with version name "K150" and protocol "P18A".
C5_Connect ==
  [][ /\ (stk # <<>> /\ ConnectReturns(TRUE))
           => At("connect:end") /\ m_protocol = P18A
      /\ (Polled("connect:greet") /\ m_buffer[1] # ChB) => ConnectReturns(FALSE)
      /\ (Polled("connect:greet") /\ m_buffer[1] = ChB)
           => m_version' = m_buffer[2] /\ Head(stk') = "commandStart"
      /\ (At("connect:started") /\ ~rv) => ConnectReturns(FALSE)
      /\ (At("connect:started") /\ rv) => Writes({21})
      /\ (Polled("connect:proto") /\ m_buffer # P18A) => ConnectReturns(FALSE)
      /\ (Polled("connect:proto") /\ m_buffer = P18A)
           => m_protocol' = P18A /\ Head(stk') = "commandEnd"
      /\ At("connect:end")
           => /\ ConnectReturns(TRUE)
              /\ m_version = 3 => getVersionName(m_version) = "K150"
    ]_vars

\* connect has returned success to main as a K150 speaking P18A.
C5_Witness ==
  /\ At("main:connect")
  /\ rv
  /\ getVersionName(m_version) = "K150"
  /\ m_protocol = P18A
  /\ [i \in 1..Len(wlog) |-> wlog[i].cmd] = <<1, ChP, 21, 1>>

\* C6: in commandStart's poll for 'Q', once a 'Q' is among the bytes
\* received the next thing commandStart does is to send 'P'; and 'P' is
\* sent only when a 'Q' was received.
C6_QAnywhere ==
  [][ /\ (Polled("commandStart:Q") /\ ChQ \in Range(m_buffer)) => Writes({ChP})
      /\ (At("commandStart:Q") /\ Writes({ChP})) => ChQ \in Range(m_buffer)
    ]_vars

\* C7: once the programmer has stopped sending, so that every read times
\* out with no byte, the running operation still returns and main ends.
C7_NoUnboundedWait ==
  silent ~> (status # "running")

\* C8: no message is written while the message written before it has had
\* no reply byte.
C8_Alternation ==
  [][(Len(wlog') > Len(wlog) /\ Len(wlog) > 0) => answered]_vars

\* Session envelope, chip presence, handshake query and streamed payload.
Envelope == {0, 1, ChP, 18, 21}
IsOpcode(e) == e.cmd \notin Envelope
Opcodes(log) ==
  [i \in 1..Len(SelectSeq(log, IsOpcode)) |-> SelectSeq(log, IsOpcode)[i].cmd]

\* PROGRAM of a flash chip, all regions selected, has come back from its
\* last command with no operation having failed.
ProgramAllAcked ==
  /\ At("program_pic:vppOff")
  /\ m_props.flag_flash_chip
  /\ args.rom /\ args.eeprom /\ args.config
  /\ acked

\* Both read backs gave the data written.
ReadBacksSame ==
  \A c \in compared : c.region \in {"ROM", "EEPROM"} => c.same

Requested ==
  { r \in {"ROM", "EEPROM", "CONFIG"} :
      \/ r = "ROM" /\ args.rom
      \/ r = "EEPROM" /\ args.eeprom /\ m_props.eeprom_size > 0
      \/ r = "CONFIG" /\ args.config }

\* C10: when PROGRAM leaves its verification phase every requested region
\* has been read back and compared, whatever the earlier comparisons gave.
C10_AllVerified ==
  At("program_pic:vppOff") => {c.region : c \in compared} = Requested


\* C11: a workflow returns success only if every Programmer operation it
\* called returned success.
C11_ResultIsAnd ==
  (WorkflowReturned /\ rv) => acked

\* C12: the transport is opened exactly once by a run that reaches connect,
\* which is every run but a DRYRUN one, and it is closed when the process
\* has exited, whatever the path.
C12_TransportOnce ==
  /\ opens <= 1
  /\ args.op # "DRYRUN" =>
       /\ (stk # <<>> /\ Head(stk) \notin {"main", "connect"}) => opens = 1
       /\ status # "running" => (opens = 1 /\ port = "closed")

\* The process has exited after a workflow that aborted with the voltages on.
C12_Witness ==
  /\ status = "EXIT_FAILURE"
  /\ vppOnOk = 1
  /\ vppOffCalls = 0
  /\ opens = 1
  /\ port = "closed"

\* C13: the ISBLANK workflow never sends command 15 or 16, and the verdict
\* it prints for a region is TRUE exactly when the bytes readROM/readEEPROM
\* gave equal the blank image: rom_size words of rom_blank for the ROM,
\* eeprom_size bytes of 255 for the EEPROM.
BlankWords == [i \in 1..(2 * m_props.rom_size) |->
                 IF i % 2 = 1 THEN Hi(m_props.rom_blank) ELSE Lo(m_props.rom_blank)]
BlankVerdict(region) == [region |-> region, same |-> TRUE] \in compared
C13_BlankVerdict ==
  [][ args.op = "ISBLANK" =>
        /\ ~Writes({15, 16})
        /\ blank_rom_data = BlankWords
        /\ At("isblank_pic:readROM") =>
             (BlankVerdict("ROM")' <=> (rv /\ Len(m_buffer) = Len(BlankWords) /\ intact))
        /\ At("isblank_pic:readEEPROM") =>
             (BlankVerdict("EEPROM")' <=>
                (rv /\ Len(m_buffer) = m_props.eeprom_size /\ intact)) ]_vars
C13_Witness ==
  /\ args.op = "ISBLANK"
  /\ BlankVerdict("EEPROM")
  /\ [region |-> "EEPROM", same |-> FALSE] \notin compared
  /\ status = "EXIT_SUCCESS"
\* C14: after any sequence of loadHEX, loadRAW and loadRAW_LE8 calls, failed
\* ones included, every segment of the store has an even number of bytes.
C14_EvenSegments ==
  \A first \in DOMAIN m_segments : Len(m_segments[first]) % 2 = 0
\* The file with a record of one byte was read: the load failed on the
\* checksum and left a segment of two bytes.
C14_Witness ==
  /\ ret.op = "loadHEX" /\ ~ret.ok
  /\ DOMAIN m_segments = {0}
  /\ m_segments[0] = <<170, 85>>
\* C15: after any sequence of loadHEX, loadRAW and loadRAW_LE8 calls no two
\* segments [first, first + size) of the store share an address.
Covered(first) == first .. (first + Len(m_segments[first]) - 1)
C15_NonOverlapping ==
  \A a, b \in DOMAIN m_segments : a # b => Covered(a) \cap Covered(b) = {}
\* C16: for every store, even lower bound, word count n >= 0, blank word and
\* value of swap_bytes, rangeOfData returns, and returns exactly 2 * n bytes.
C16_Length == ret.op = "rangeOfData" => Len(ret.data) = 2 * ret.n
\* A query of three words that starts in a gap and runs over two segments
\* that overlap, one of them at an odd address.
C16_Witness ==
  /\ ret.op = "rangeOfData" /\ ret.n = 3 /\ ret.lower = 254
  /\ DOMAIN m_segments = {256, 257}
  /\ Len(m_segments[256]) = 4 /\ Len(m_segments[257]) = 2
  /\ Len(ret.data) = 6
\* C17: for every word address a of the queried range that no segment
\* covers, the result holds the blank word's MSB at index a - lower and its
\* LSB at index a - lower + 1, whatever swap_bytes is.
InSegment(a) == \E first \in DOMAIN m_segments : a \in Covered(first)
C17_BlankFill ==
  ret.op = "rangeOfData" =>
    \A i \in 0..(ret.n - 1) :
      ~InSegment(ret.lower + 2 * i) =>
        /\ Byte(ret.data, 2 * i) = Hi(ret.blank)
        /\ Byte(ret.data, 2 * i + 1) = Lo(ret.blank)
\* The store with one segment [AA, BB] at 0x100, queried from 0x0FE for three
\* words with blank word 0xFFFF.
C17_Witness ==
  /\ m_segments = [first \in {256} |-> <<170, 187>>]
  /\ ret = [op |-> "rangeOfData", lower |-> 254, n |-> 3, blank |-> 65535,
            swap |-> FALSE, data |-> <<255, 255, 170, 187, 255, 255>>]
\* C18: for every word address a of the queried range that a segment covers,
\* a segment that begins before lower included, the result holds that
\* segment's two bytes for a: in segment order when swap_bytes is false,
\* exchanged when it is true.  Stated for stores whose segments start at
\* even addresses and do not overlap.
WordAligned ==
  /\ \A first \in DOMAIN m_segments :
       first % 2 = 0 /\ Len(m_segments[first]) % 2 = 0
  /\ \A x, y \in DOMAIN m_segments : x # y => Covered(x) \cap Covered(y) = {}
SegmentWord(first, a) ==
  <<Byte(m_segments[first], a - first), Byte(m_segments[first], a - first + 1)>>
ResultWord(i) == <<Byte(ret.data, 2 * i), Byte(ret.data, 2 * i + 1)>>
CoveredWords ==
  \A i \in 0..(ret.n - 1) :
    \A first \in DOMAIN m_segments :
      LET a == ret.lower + 2 * i
      IN  a \in Covered(first) =>
            ResultWord(i) = IF ret.swap THEN SwapBytes(SegmentWord(first, a))
                                        ELSE SegmentWord(first, a)
C18_CoveredWords ==
  (ret.op = "rangeOfData" /\ WordAligned) => CoveredWords
\* C19: round trip.  For a store of even-length segments that do not overlap,
\* loadHEX of the file saveHEX wrote succeeds and gives a store with the same
\* byte at every address, whatever the segmentation; segments longer than 16
\* bytes and addresses above 0xFFFF included.
Content(m) ==
  LET span(first) == first .. (first + Len(m[first]) - 1)
  IN  [a \in UNION {span(first) : first \in DOMAIN m} |->
         LET first == CHOOSE x \in DOMAIN m : a \in span(x)
         IN  m[first][a - first + 1]]
C19_RoundTrip ==
  [][ ( /\ ret'.op = "loadHEX" /\ ret'.saved
        /\ file = SavedText(m_segments)
        /\ \A first \in DOMAIN m_segments : Len(m_segments[first]) % 2 = 0
        /\ \A x, y \in DOMAIN m_segments : x # y => Covered(x) \cap Covered(y) = {} )
      => ( ret'.ok /\ Content(m_segments') = Content(m_segments) ) ]_vars
\* The file of a store with 18 bytes at 0xFFF0 was read back: the segment
\* came back as 16 bytes at 0xFFF0 and 2 bytes at 0x10000.
C19_Witness ==
  /\ ret.op = "loadHEX" /\ ret.saved /\ ret.ok
  /\ file # <<>>
  /\ DOMAIN m_segments = {2, 65520, 65536}
  /\ Len(m_segments[65520]) = 16
  /\ m_segments[65536] = <<221, 234>>
\* C20: every line saveHEX wrote (data record, extended linear address
\* record, end of file record) ends with a checksum that makes the sum of
\* all the bytes the line encodes, checksum included, 0 modulo 256.
RECURSIVE Lines(_)
Lines(text) ==
  IF text = <<>> THEN {}
  ELSE LET rl == readline(text, <<>>, TRUE)
       IN  {rl.line} \cup Lines(rl.rest)
RECURSIVE Decoded(_)
Decoded(chars) ==
  IF Len(chars) < 2 THEN <<>>
  ELSE <<hex_to_num(SubSeq(chars, 1, 2))>> \o Decoded(Tail(Tail(chars)))
RecordType(line) == hex_to_num(SubSeq(line, 8, 9))
C20_Checksums ==
  (ret.op = "saveHEX" /\ ret.ok) =>
    \A line \in Lines(file) :
      /\ Head(line) = 58
      /\ Len(line) % 2 = 1
      /\ \A i \in 2..Len(line) : Digit(line[i]) >= 0
      /\ Sum(Decoded(Tail(line))) % 256 = 0
\* A written file with records of all three types.
C20_Witness ==
  /\ ret.op = "saveHEX" /\ ret.ok
  /\ {RecordType(line) : line \in Lines(file)} = {0, 1, 4}
  /\ Cardinality(Lines(file)) = 5
\* C21: on an empty store, after a successful loadRAW_LE8(a, b) with a even,
\* rangeOfData(a, len(b), 0xFFFF, false) has 2 * len(b) bytes: b[i] at every
\* even index 2i and 0 at every odd index.
C21_WidenedBytes ==
  [][ ( /\ ret.op = "loadRAW_LE8" /\ ret.ok
        /\ DOMAIN m_segments = {ret.addr}
        /\ ret.addr % 2 = 0
        /\ ret'.op = "rangeOfData"
        /\ ret'.lower = ret.addr /\ ret'.n = Len(ret.data)
        /\ ret'.blank = 65535 /\ ~ret'.swap )
      => ( /\ Len(ret'.data) = 2 * Len(ret.data)
           /\ \A i \in 0..(Len(ret.data) - 1) :
                /\ Byte(ret'.data, 2 * i) = Byte(ret.data, i)
                /\ Byte(ret'.data, 2 * i + 1) = 0 ) ]_vars
\* The bytes AA, BB were loaded at address 2 of an empty store and queried.
C21_Witness ==
  /\ m_segments = [first \in {2} |-> <<170, 0, 187, 0>>]
  /\ ret = [op |-> "rangeOfData", lower |-> 2, n |-> 2, blank |-> 65535,
            swap |-> FALSE, data |-> <<170, 0, 187, 0>>]
\* C22: when the first record of the file is a data record with a wrong
\* checksum byte, loadHEX returns failure and the store, empty before, has
\* no segments afterwards.
FirstRecordBad(text) ==
  LET line == readline(text, <<>>, TRUE).line
  IN  /\ Len(line) >= 11 /\ Head(line) = 58
      /\ Len(line) = 2 * (hex_to_num(SubSeq(line, 2, 3)) + 5) + 1
      /\ RecordType(line) = 0
      /\ Sum(Decoded(Tail(line))) % 256 # 0
C22_BadChecksum ==
  (ret.op = "loadHEX" /\ FirstRecordBad(ret.text)) =>
     (~ret.ok /\ m_segments = <<>>)

\* C23: when readCONFIG returns true it has given its caller exactly
\* fuse_count fuse values, fuse_count being the number of entries of
\* fuse_blank, the k-th of them the word at bytes 10+2k, 11+2k of the reply.
ReadCONFIGReturned ==
  stk # <<>> /\ Head(stk) \in {"read_pic:readCONFIG", "program_pic:readCONFIG"}
C23_FuseCount ==
  (ReadCONFIGReturned /\ rv) =>
     /\ Len(fuses) = Len(m_props.fuse_blank)
     /\ \A k \in 1..Len(fuses) : fuses[k] = ReplyFuses(intact)[k]

\* C24: programROM returns failure without writing a byte whenever
\* len(data) / 2 > rom_size or len(data) is not divisible by 32, odd lengths
\* included; and every chunk it writes is made of bytes of data.
Returned(op) == call.op = op /\ stk = <<"caller">>
ChunksWritten == SelectSeq(wlog, LAMBDA w : w.cmd = 0)
C24_ROMSize ==
  call.op = "programROM" =>
    /\ (Len(call.data) \div 2 > m_props.rom_size \/ Len(call.data) % 32 # 0) =>
         /\ wlog = <<>>
         /\ Returned("programROM") => ~rv
    /\ \A k \in 1..Len(ChunksWritten) :
         /\ 32 * k <= Len(call.data)
         /\ ChunksWritten[k].bytes = SubSeq(call.data, 32 * k - 31, 32 * k)
\* C25: for each of the twelve entries of CORE_TYPE_LIST, configure sets
\* rom_blank to (1 << core_bits) - 1, a value of at most 16 bits; the
\* properties of a configured programmer hold that value.
Configured(t) == configure([(CHOOSE c \in Chips : TRUE) EXCEPT !.core_type = t])
C25_RomBlank ==
  /\ Cardinality(DOMAIN CORE_TYPE_LIST) = 12
  /\ \A t \in DOMAIN CORE_TYPE_LIST :
       /\ Configured(t).core_bits = CORE_TYPE_LIST[t].bits
       /\ Configured(t).rom_blank = 2 ^ CORE_TYPE_LIST[t].bits - 1
       /\ Configured(t).rom_blank < 65536
  /\ m_props # Properties => m_props.rom_blank = 2 ^ m_props.core_bits - 1
C25_Witness ==
  /\ m_props.core_bits = 12
  /\ m_props.rom_blank = 4095
  /\ \E i \in 1..Len(wlog) : wlog[i].cmd = 3

\* C26: in a DRYRUN run, whatever regions are selected and whatever the hex
\* file holds, the transport is never opened, reset, written or read: no
\* Programmer operation that touches it is ever entered, and the run ends
\* with the transport as it was constructed.
DryPoints == {"main", "program_pic", "main:workflow"}
C26_DryRun ==
  args.op = "DRYRUN" =>
    /\ opens = 0
    /\ port = "closed"
    /\ wlog = <<>>
    /\ m_buffer = <<>>
    /\ ~Polling
    /\ \A i \in 1..Len(stk) : stk[i] \in DryPoints
C26_Witness ==
  /\ args.op = "DRYRUN"
  /\ args.rom /\ args.eeprom /\ args.config
  /\ ret = [op |-> "loadHEX", ok |-> TRUE]
  /\ status = "EXIT_SUCCESS"

\* C27: for data that programROM accepts, the first message is
\* {7, wsz_hi, wsz_lo}; it is followed by chunks of 32 bytes that are, in
\* order, the successive 32 byte pieces of data, at most len / 32 of them;
\* a chunk is written only when the reply before it was 'Y'; and when the
\* operation returns true every chunk was written and the last byte read
\* is 'P'.
ROMAccepted == call.op = "programROM" /\ ROMSizeOK(call.data)
C27_ROMProtocol ==
  ROMAccepted =>
    /\ wlog # <<>> =>
         /\ wlog[1] = [cmd |-> 7, bytes |-> <<7, Hi(Len(call.data) \div 2),
                                                Lo(Len(call.data) \div 2)>>]
         /\ Len(wlog) = 1 + Len(ChunksWritten)
    /\ 32 * Len(ChunksWritten) <= Len(call.data)
    /\ \A k \in 1..Len(ChunksWritten) :
         ChunksWritten[k].bytes = SubSeq(call.data, 32 * k - 31, 32 * k)
    /\ At("programROM:loop") => m_buffer[1] = ChY /\ v = 32 * Len(ChunksWritten)
    /\ (Returned("programROM") /\ rv) =>
         /\ 32 * Len(ChunksWritten) = Len(call.data)
         /\ m_buffer[1] = ChP

\* C28: programEEPROM writes nothing and returns false when len(data) is
\* above eeprom_size or odd.  Otherwise its first message is
\* {8, len_hi, len_lo}, followed by the pairs of data in order and then by
\* the terminator {0, 0}; a pair or the terminator is written only when the
\* reply before it was 'Y', the terminator only after every pair; and the
\* operation returns true only when the terminator was written and the byte
\* read after it is 'P', false when that byte is anything else.
PairsWritten == SelectSeq(wlog, LAMBDA w : w.cmd = 0)
PairOf(data, k) ==
  IF 2 * k <= Len(data) THEN <<data[2 * k - 1], data[2 * k]>> ELSE <<0, 0>>
TerminatorWritten == Len(PairsWritten) = Len(call.data) \div 2 + 1
C28_EEPROMProtocol ==
  call.op = "programEEPROM" =>
    IF Len(call.data) > m_props.eeprom_size \/ Len(call.data) % 2 = 1
      THEN /\ wlog = <<>>
           /\ Returned("programEEPROM") => ~rv
      ELSE /\ wlog # <<>> =>
                /\ wlog[1] = [cmd |-> 8, bytes |-> <<8, Hi(Len(call.data)),
                                                       Lo(Len(call.data))>>]
                /\ Len(wlog) = 1 + Len(PairsWritten)
           /\ Len(PairsWritten) <= Len(call.data) \div 2 + 1
           /\ \A k \in 1..Len(PairsWritten) :
                PairsWritten[k].bytes = PairOf(call.data, k)
           /\ At("programEEPROM:loop") =>
                m_buffer[1] = ChY /\ v = 2 * Len(PairsWritten)
           /\ Returned("programEEPROM") =>
                (rv <=> TerminatorWritten /\ m_buffer # <<>> /\ m_buffer[1] = ChP)
C28_Witness ==
  /\ call.op = "programEEPROM"
  /\ Len(call.data) = 4
  /\ Len(PairsWritten) = 3
  /\ Returned("programEEPROM")
  /\ rv

\* C29: programCONFIG writes nothing and returns false when the fuse count
\* is not 7 for a 16 bit core, or is 0 or above 2 for another core.
\* Otherwise it writes one message of 25 bytes: for a 16 bit core 9, '0',
\* '0', the id cut or zero filled to 8 bytes and the 7 fuses low byte
\* first; for another core 9, '0', '0', the id cut or zero filled to 4
\* bytes, 'F', 'F', 'F', 'F', the first fuse low byte first and twelve 0xFF.
IdByte(id, i) == IF i <= Len(id) THEN id[i] ELSE 0
ExpectedConfig(id, fs) ==
  IF m_props.core_bits = 16
    THEN <<9, 48, 48>> \o [i \in 1..8 |-> IdByte(id, i)]
           \o [i \in 1..14 |-> IF i % 2 = 1 THEN fs[(i + 1) \div 2] % 256
                                ELSE (fs[i \div 2] \div 256) % 256]
    ELSE <<9, 48, 48>> \o [i \in 1..4 |-> IdByte(id, i)] \o <<70, 70, 70, 70>>
           \o <<fs[1] % 256, (fs[1] \div 256) % 256>>
           \o <<255, 255, 255, 255, 255, 255, 255, 255, 255, 255, 255, 255>>
C29_ConfigMessage ==
  call.op = "programCONFIG" =>
    IF (m_props.core_bits = 16 /\ Len(call.fuses) # 7)
         \/ (m_props.core_bits # 16 /\ Len(call.fuses) \notin {1, 2})
      THEN /\ wlog = <<>>
           /\ Returned("programCONFIG") => ~rv
      ELSE /\ Len(wlog) <= 1
           /\ Returned("programCONFIG") => Len(wlog) = 1
           /\ wlog # <<>> =>
                /\ Len(wlog[1].bytes) = 25
                /\ wlog[1].bytes = ExpectedConfig(call.id, call.fuses)
C29_Witness ==
  /\ call.op = "programCONFIG"
  /\ m_props.core_bits = 16
  /\ Len(call.id) = 9
  /\ Len(wlog) = 1
  /\ Returned("programCONFIG")
  /\ rv

\* C30: initializeProgrammingVariables writes one message of 12 bytes:
\* 3, rom_size high and low, eeprom_size high and low, core_type, flags,
\* program_delay, the power sequence, erase_mode, program_tries and
\* panel_sizing, where flags is 1 for the calibration value plus 2 for the
\* band gap fuse plus 4 for single panel access plus 8 for the VCC/VPP delay
\* and where, in ICSP mode, power sequence 2 is sent as 1 and 4 as 3.  It
\* returns true exactly when the reply is 'I'.
Bit(b, n) == IF b THEN n ELSE 0
ExpectedInit(p, icsp_mode) ==
  << 3, p.rom_size \div 256, p.rom_size % 256,
     p.eeprom_size \div 256, p.eeprom_size % 256,
     p.core_type,
     Bit(p.flag_calibration_value_in_rom, 1) + Bit(p.flag_band_gap_fuse, 2)
       + Bit(p.flag_18f_single_panel_access_mode, 4) + Bit(p.flag_vcc_vpp_delay, 8),
     p.program_delay,
     CASE icsp_mode /\ p.power_sequence = 2 -> 1
       [] icsp_mode /\ p.power_sequence = 4 -> 3
       [] OTHER -> p.power_sequence,
     p.erase_mode, p.program_tries, p.panel_sizing >>
C30_InitMessage ==
  call.op = "init" =>
    /\ Len(wlog) <= 1
    /\ wlog # <<>> =>
         /\ Len(wlog[1].bytes) = 12
         /\ wlog[1].bytes = ExpectedInit(m_props, call.icsp_mode)
    /\ Returned("init") =>
         /\ Len(wlog) = 1
         /\ rv <=> (m_buffer # <<>> /\ m_buffer[1] = ChI)
C30_Witness ==
  /\ call.op = "init"
  /\ call.icsp_mode
  /\ m_props.power_sequence = 4
  /\ wlog # <<>>
  /\ wlog[1].bytes[9] = 3
  /\ Returned("init")
  /\ rv

\* C31: isBlankROM writes {15, rom_blank_hi} once and nothing else; a reply
\* byte that is not 'B' is never skipped: once the reply holds one, the next
\* thing the operation does is return, true exactly when the first such
\* byte is 'Y'.
RECURSIVE FirstNot(_, _)
FirstNot(buf, b) ==
  IF buf = <<>> THEN b
  ELSE IF Head(buf) # b THEN Head(buf)
  ELSE FirstNot(Tail(buf), b)
C31_FirstNonBusy ==
  [][ call.op = "isBlankROM" =>
        /\ wlog' # wlog =>
             wlog = <<>> /\ wlog' = <<[cmd |-> 15, bytes |-> <<15, Hi(m_props.rom_blank)>>]>>
        /\ (At("isBlankROM:poll") /\ FirstNot(m_buffer, ChB) # ChB) =>
             /\ stk' = <<"caller">>
             /\ rv' = (FirstNot(m_buffer, ChB) = ChY) ]_vars

\* C32: m_VPPEnabled becomes true only in the step that takes a 'V' reply to
\* command 4 or 6; it becomes false only in the step that takes a 'v' reply
\* to command 5, or when cycleProgrammingVoltages returns failure after a
\* reply to command 6 that is not 'V' and after the commandEnd it wrote
\* next; and a setProgrammingVoltages that gets any other reply than the
\* one it expects leaves m_VPPEnabled as it was and returns failure.
LastCmd == IF wlog = <<>> THEN 0 ELSE wlog[Len(wlog)].cmd
CmdBeforeLast == IF Len(wlog) < 2 THEN 0 ELSE wlog[Len(wlog) - 1].cmd
C32_VppChanges ==
  [][ /\ (~m_VPPEnabled /\ m_VPPEnabled') =>
           /\ At("vppOn:poll") \/ At("cycle:poll")
           /\ LastCmd \in {4, 6}
           /\ m_buffer[1] = ChV
      /\ (m_VPPEnabled /\ ~m_VPPEnabled') =>
           \/ At("vppOff:poll") /\ LastCmd = 5 /\ m_buffer[1] = Chv
           \/ At("cycle:reset") /\ CmdBeforeLast = 6 /\ LastCmd = 1 /\ ~rv'
      /\ (At("cycle:poll") /\ m_buffer # <<>> /\ m_buffer[1] # ChV) =>
           stk' = <<"commandEnd", "cycle:reset">> \o Tail(stk)
      /\ (At("vppOn:poll") /\ m_buffer # <<>> /\ m_buffer[1] # ChV) =>
           m_VPPEnabled' = m_VPPEnabled /\ ~rv'
      /\ (At("vppOff:poll") /\ m_buffer # <<>> /\ m_buffer[1] # Chv) =>
           m_VPPEnabled' = m_VPPEnabled /\ ~rv' ]_vars
\* cycleProgrammingVoltages has returned failure with the voltages marked off.
C32_Witness ==
  /\ At("program_pic:cycle")
  /\ ~rv
  /\ ~m_VPPEnabled
  /\ vppOnOk = 1
  /\ CmdBeforeLast = 6
  /\ LastCmd = 1

\* C33: with an empty socket hint waitUntilChipInSocket and
\* waitUntilChipOutOfSocket return true and neither write nor read a byte;
\* and a run of main.cpp with --icsp never writes command 18.
C33_NoPresencePrompt ==
  /\ (call.op \in {"waitIn", "waitOut"} /\ m_props.socket_hint = "") =>
       /\ wlog = <<>>
       /\ m_buffer = <<>>
       /\ stk \in { <<call.op, "caller">>, <<"caller">> }
       /\ Returned(call.op) => rv
  /\ (call.op = "main" /\ args.icsp) =>
       \A i \in 1..Len(wlog) : wlog[i].cmd # 18
\* An ICSP run on a chip that has a socket hint has gone past the point
\* where the chip is asked for.
C33_Witness ==
  /\ call.op = "main"
  /\ args.icsp
  /\ m_props.socket_hint # ""
  /\ vppOnOk = 1
  /\ \A i \in 1..Len(wlog) : wlog[i].cmd # 18

\* C34: after a loadHEX that returned success the store has a segment at
\* extended_address | record_address for every type 00 record of the file,
\* and no other, where extended_address is 0 at the start and is the field
\* of the latest type 02 record before it times 16, or of the latest type
\* 04 record before it times 65536.
RECURSIVE RecordKeys(_, _)
RecordKeys(text, extended_address) ==
  IF text = <<>> THEN {}
  ELSE LET rl    == readline(text, <<>>, TRUE)
           field == Decoded(Tail(rl.line))
       IN  IF Len(field) < 5 THEN {}
           ELSE IF field[4] = 0
             THEN {BitOr(extended_address, 256 * field[2] + field[3])}
                    \cup RecordKeys(rl.rest, extended_address)
           ELSE IF field[4] = 2
             THEN RecordKeys(rl.rest, (256 * field[5] + field[6]) * 16)
           ELSE IF field[4] = 4
             THEN RecordKeys(rl.rest, (256 * field[5] + field[6]) * 65536)
           ELSE {}
C34_ExtendedAddress ==
  (ret.op = "loadHEX" /\ ret.ok) =>
    DOMAIN m_segments = RecordKeys(ret.text, 0)
\* A file with a type 04 record of field 0001 and then a data record at 0000.
C34_Witness ==
  /\ ret.op = "loadHEX" /\ ret.ok
  /\ 65536 \in DOMAIN m_segments
  /\ \E line \in Lines(ret.text) :
       RecordType(line) = 4 /\ Decoded(Tail(line))[6] = 1

\* C35: loadRAW refuses a block of even length only if the block shares an
\* address with a segment of the store: a block that shares none, one that
\* abuts a segment below or above included, is inserted.
SharesAddress(addr, size) ==
  \E first \in DOMAIN m_segments :
    \E a \in addr..(addr + size - 1) :
      a >= first /\ a < first + Len(m_segments[first])
C35_AcceptsDisjoint ==
  (ret.op = "loadRAW" /\ ~ret.ok /\ Len(ret.data) % 2 = 0) =>
    SharesAddress(ret.addr, Len(ret.data))

\* C36: loaddata, once the file is open, returns true exactly when the file
\* has a CHIPNAME line whose value, upper-cased, is the requested name
\* upper-cased.
KeyOf(line) ==
  SubSeq(line, 1, (CHOOSE n \in 1..Len(line) : line[n] = 61 /\ \A m \in 1..(n - 1) : line[m] # 61) - 1)
ValueOf(line) == SubSeq(line, Len(KeyOf(line)) + 2, Len(line))
Unquoted(value) ==
  IF Len(value) >= 2 /\ value[1] = 34 /\ value[Len(value)] = 34
    THEN SubSeq(value, 2, Len(value) - 1)
    ELSE value
NameLines(text) ==
  { line \in Lines(text) :
      /\ \E n \in 1..Len(line) : line[n] = 61
      /\ upperStr(KeyOf(line)) = CHIPNAME }
C36_ChipFound ==
  (chip.pc = "done" /\ chip.opened) =>
    (chip.rv <=> \E line \in NameLines(chip.datfile) :
                   upperStr(Unquoted(ValueOf(line))) = upperStr(chip.chipname))

\* C37: loadHEX returns success only if every line it read, up to and
\* including an end of file record (type 01) of length 0, begins with ':',
\* has the length its length field gives, ends with the right checksum and
\* has a record type that is supported (00, 02, 04, or 01 for the last one).
RECURSIVE LinesRead(_)
LinesRead(text) ==
  IF text = <<>> THEN <<>>
  ELSE LET rl == readline(text, <<>>, TRUE)
       IN  <<rl.line>> \o LinesRead(rl.rest)
Validated(line) ==
  /\ Len(line) >= 3 /\ Head(line) = 58
  /\ Len(line) = 2 * (hex_to_num(SubSeq(line, 2, 3)) + 5) + 1
  /\ Sum(Decoded(Tail(line))) % 256 = 0
C37_ValidatedLines ==
  (ret.op = "loadHEX" /\ ret.ok) =>
    LET ls == LinesRead(ret.text)
    IN  \E k \in 1..Len(ls) :
          /\ \A j \in 1..k : Validated(ls[j])
          /\ \A j \in 1..(k - 1) : RecordType(ls[j]) \in {0, 2, 4}
          /\ RecordType(ls[k]) = 1
          /\ hex_to_num(SubSeq(ls[k], 2, 3)) = 0

\* C38: when waitUntilChipInSocket or waitUntilChipOutOfSocket returns after
\* its commandStart succeeded (the query 18 or 19 was sent), the command
\* session is closed: a commandEnd was issued after the query.
C38_SessionClosed ==
  ( /\ stk = <<"caller">> /\ call.op \in {"waitIn", "waitOut"}
    /\ \E i \in 1..Len(wlog) : wlog[i].cmd \in {18, 19} )
  => ( /\ ~session
       /\ LastCmd = 1 )

\* C39: in PROGRAM with CONFIG selected, when every operation has succeeded
\* and the reply to readCONFIG carries, word for word, the fuse values that
\* PROGRAM meant to write, the comparison of the values read with
\* fuse_values passes, whatever the number of fuses of the chip.
C39_ConfigVerified ==
  (At("program_pic:readCONFIG") /\ acked /\ ReplyFuses(intact) = fuse_values)
    => fuses = fuse_values

\* C40: PROGRAM returns success only if every requested region (ROM, EEPROM
\* when the chip has one, CONFIG) was read back and found equal to the data
\* meant for it, no read back differed, and the last command, voltages off,
\* was acknowledged with 'v'.
C40_SuccessVerified ==
  (WorkflowReturned /\ args.op = "PROGRAM" /\ rv) =>
    /\ \A r \in Requested : [region |-> r, same |-> TRUE] \in compared
    /\ \A c \in compared : c.same
    /\ LastCmd = 5
    /\ m_buffer # <<>> /\ m_buffer[1] = Chv
    /\ ~m_VPPEnabled
\* PROGRAM of ROM, EEPROM and CONFIG has returned success, all three regions
\* read back as written.
C40_Witness ==
  /\ WorkflowReturned /\ args.op = "PROGRAM" /\ rv
  /\ Requested = {"ROM", "EEPROM", "CONFIG"}
  /\ compared = { [region |-> r, same |-> TRUE] : r \in Requested }
====
